---- MODULE Spec2Model ----
(***************************************************************************)
(* A model of the filman.cc scraper (src/backend/scraper/filman_scraper.py) *)
(* and of the Flask facade that shares one scraper between its request      *)
(* threads (src/backend/app.py).                                            *)
(*                                                                          *)
(* Python values are represented as follows.                                *)
(*   str            a TLA+ string (characters are one-character strings)    *)
(*   None / absent  the empty tuple <<>>; a present value x is <<x>>        *)
(*   list           a sequence                                              *)
(*   dict           a record, or a function from keys to values             *)
(*   bytes          a sequence of numbers 0..255                            *)
(* A DOM element that a selector does not find is NoElem (<<>>) where the   *)
(* code would get NoSuchElementException.                                   *)
(***************************************************************************)
EXTENDS Integers, Sequences, FiniteSets, TLC

(***************************************************************************)
(* Bounds of the model.                                                     *)
(***************************************************************************)
MaxTiles == 3         \* result tiles on a search page
MaxItems == 2         \* <li> items in the episode list
MaxRows == 2          \* rows of the links table
MaxCookies == 2       \* records in a cookie list passed to inject_cookies
MaxLaunches == 2      \* browsers started during one run
MaxInstances == 3     \* FilmanScraper objects alive at once

None == <<>>
Some(x) == <<x>>
NoElem == <<>>

(***************************************************************************)
(* Python str operations used by the scraper.                               *)
(***************************************************************************)
Ch(s, i) == SubSeq(s, i, i)

Whitespace == {" ", "\t", "\n", "\r", "\f"}

RECURSIVE lstrip(_)
lstrip(s) ==
  IF Len(s) > 0 /\ Ch(s, 1) \in Whitespace THEN lstrip(SubSeq(s, 2, Len(s))) ELSE s

RECURSIVE rstrip(_)
rstrip(s) ==
  IF Len(s) > 0 /\ Ch(s, Len(s)) \in Whitespace THEN rstrip(SubSeq(s, 1, Len(s) - 1)) ELSE s

strip(s) == rstrip(lstrip(s))

Lowercase == "abcdefghijklmnopqrstuvwxyz"
Uppercase == "ABCDEFGHIJKLMNOPQRSTUVWXYZ"

IndexIn(alphabet, c) ==
  IF \E i \in 1..Len(alphabet) : Ch(alphabet, i) = c
  THEN CHOOSE i \in 1..Len(alphabet) : Ch(alphabet, i) = c
  ELSE 0

RECURSIVE MapChars(_, _, _)
MapChars(s, from, to) ==
  IF Len(s) = 0 THEN ""
  ELSE LET c == Ch(s, 1)
           k == IndexIn(from, c)
       IN  (IF k = 0 THEN c ELSE Ch(to, k)) \o MapChars(SubSeq(s, 2, Len(s)), from, to)

lower(s) == MapChars(s, Uppercase, Lowercase)
upper(s) == MapChars(s, Lowercase, Uppercase)

\* sub in s
Contains(sub, s) ==
  \E i \in 1..(Len(s) - Len(sub) + 1) : SubSeq(s, i, i + Len(sub) - 1) = sub

\* s.split(): the whitespace-delimited tokens of s, in order
RECURSIVE split(_)
split(s) ==
  LET t == lstrip(s)
  IN  IF Len(t) = 0 THEN <<>>
      ELSE LET ends == {i \in 1..Len(t) : Ch(t, i) \in Whitespace}
               n == IF ends = {} THEN Len(t) + 1
                    ELSE CHOOSE i \in ends : \A j \in ends : i <= j
           IN  <<SubSeq(t, 1, n - 1)>> \o split(SubSeq(t, n, Len(t)))

(***************************************************************************)
(* Code points of the characters the model writes as TLA+ strings.          *)
(***************************************************************************)
Printable32to95 == " !\"#$%&'()*+,-./0123456789:;<=>?@ABCDEFGHIJKLMNOPQRSTUVWXYZ[\\]^_"
Printable97to126 == "abcdefghijklmnopqrstuvwxyz{|}~"

Ord(c) ==
  IF IndexIn(Printable32to95, c) > 0 THEN 31 + IndexIn(Printable32to95, c)
  ELSE IF IndexIn(Printable97to126, c) > 0 THEN 96 + IndexIn(Printable97to126, c)
  ELSE IF c = "\t" THEN 9
  ELSE IF c = "\n" THEN 10
  ELSE IF c = "\f" THEN 12
  ELSE 13

Ords(s) == [i \in 1..Len(s) |-> Ord(Ch(s, i))]

(***************************************************************************)
(* base64.b64decode(s) with validate=False (binascii.a2b_base64): characters *)
(* outside the alphabet are discarded, decoding stops at a complete pad      *)
(* sequence, and leftover data characters are an error.                      *)
(***************************************************************************)
B64Alphabet == "ABCDEFGHIJKLMNOPQRSTUVWXYZabcdefghijklmnopqrstuvwxyz0123456789+/"

\* the value of each character of the alphabet: its position, from 0
B64Values ==
  [c \in {Ch(B64Alphabet, i) : i \in 1..Len(B64Alphabet)} |-> IndexIn(B64Alphabet, c) - 1]

RECURSIVE a2b_base64(_, _, _, _, _, _)
a2b_base64(s, i, quad_pos, leftchar, pads, out) ==
  IF i > Len(s)
  THEN [ok |-> quad_pos = 0, bytes |-> IF quad_pos = 0 THEN out ELSE <<>>]
  ELSE LET c == Ch(s, i)
           v == IF c \in DOMAIN B64Values THEN B64Values[c] ELSE -1
       IN  IF c = "="
           THEN IF quad_pos >= 2 /\ quad_pos + pads + 1 >= 4
                THEN [ok |-> TRUE, bytes |-> out]
                ELSE a2b_base64(s, i + 1, quad_pos, leftchar,
                                IF quad_pos >= 2 THEN pads + 1 ELSE pads, out)
           ELSE IF v < 0
           THEN a2b_base64(s, i + 1, quad_pos, leftchar, pads, out)
           ELSE IF quad_pos = 0
           THEN a2b_base64(s, i + 1, 1, v, 0, out)
           ELSE IF quad_pos = 1
           THEN a2b_base64(s, i + 1, 2, v % 16, 0, Append(out, leftchar * 4 + (v \div 16)))
           ELSE IF quad_pos = 2
           THEN a2b_base64(s, i + 1, 3, v % 4, 0, Append(out, leftchar * 16 + (v \div 4)))
           ELSE a2b_base64(s, i + 1, 0, 0, 0, Append(out, leftchar * 64 + v))

b64decode(s) == a2b_base64(s, 1, 0, 0, 0, <<>>)

(***************************************************************************)
(* bytes.decode('utf-8'): the code points, or an error.                     *)
(***************************************************************************)
RECURSIVE utf8_decode(_)
utf8_decode(b) ==
  IF Len(b) = 0 THEN [ok |-> TRUE, text |-> <<>>]
  ELSE LET b1 == b[1]
           n == IF b1 < 128 THEN 1
                ELSE IF b1 \in 194..223 THEN 2
                ELSE IF b1 \in 224..239 THEN 3
                ELSE IF b1 \in 240..244 THEN 4
                ELSE 0
           wellFormed ==
             /\ n > 0
             /\ Len(b) >= n
             /\ \A k \in 2..n : b[k] \in 128..191
             /\ (b1 = 224 => b[2] >= 160)
             /\ (b1 = 237 => b[2] <= 159)
             /\ (b1 = 240 => b[2] >= 144)
             /\ (b1 = 244 => b[2] <= 143)
           cp == IF n = 1 THEN b1
                 ELSE IF n = 2 THEN (b1 - 192) * 64 + (b[2] - 128)
                 ELSE IF n = 3 THEN (b1 - 224) * 4096 + (b[2] - 128) * 64 + (b[3] - 128)
                 ELSE (b1 - 240) * 262144 + (b[2] - 128) * 4096 + (b[3] - 128) * 64 + (b[4] - 128)
           rest == utf8_decode(SubSeq(b, n + 1, Len(b)))
       IN  IF ~wellFormed THEN [ok |-> FALSE, text |-> <<>>]
           ELSE IF rest.ok THEN [ok |-> TRUE, text |-> <<cp>> \o rest.text]
           ELSE [ok |-> FALSE, text |-> <<>>]

(***************************************************************************)
(* json.loads(text) on a str given as code points.  A JSON value is a       *)
(* record tagged by t: "object" (members: the key/value pairs in order),    *)
(* "array" (items), "string" (s: code points), "number" (zero: whether it   *)
(* is 0, which is what its truth value depends on), "true", "false",        *)
(* "null".  A parse result is [ok, v, i]: the value and the position after  *)
(* it.                                                                      *)
(***************************************************************************)
Fail == [ok |-> FALSE]
Parsed(v, i) == [ok |-> TRUE, v |-> v, i |-> i]

JsonWhitespace == {32, 9, 10, 13}
Digits == 48..57

RECURSIVE skip_ws(_, _)
skip_ws(t, i) == IF i <= Len(t) /\ t[i] \in JsonWhitespace THEN skip_ws(t, i + 1) ELSE i

At(t, i, c) == i <= Len(t) /\ t[i] = c
StartsAt(t, i, lit) == i + Len(lit) - 1 <= Len(t) /\ SubSeq(t, i, i + Len(lit) - 1) = lit

HexValue(c) ==
  IF c \in 48..57 THEN c - 48
  ELSE IF c \in 97..102 THEN c - 87
  ELSE IF c \in 65..70 THEN c - 55
  ELSE -1

\* the code point of \uXXXX whose four digits start at i, or -1
Hex4(t, i) ==
  IF i + 3 <= Len(t) /\ \A k \in 0..3 : HexValue(t[i + k]) >= 0
  THEN HexValue(t[i]) * 4096 + HexValue(t[i + 1]) * 256 + HexValue(t[i + 2]) * 16 + HexValue(t[i + 3])
  ELSE -1

Unescape(e) ==
  IF e = 34 THEN 34            \* \"
  ELSE IF e = 92 THEN 92       \* \\
  ELSE IF e = 47 THEN 47       \* \/
  ELSE IF e = 98 THEN 8        \* \b
  ELSE IF e = 102 THEN 12      \* \f
  ELSE IF e = 110 THEN 10      \* \n
  ELSE IF e = 114 THEN 13      \* \r
  ELSE IF e = 116 THEN 9       \* \t
  ELSE -1

\* the string whose opening quote precedes position i (strict mode)
RECURSIVE scanstring(_, _, _)
scanstring(t, i, acc) ==
  IF i > Len(t) THEN Fail
  ELSE LET c == t[i]
       IN  IF c = 34 THEN Parsed(acc, i + 1)
           ELSE IF c < 32 THEN Fail
           ELSE IF c # 92 THEN scanstring(t, i + 1, Append(acc, c))
           ELSE IF i + 1 > Len(t) THEN Fail
           ELSE IF t[i + 1] # 117
           THEN IF Unescape(t[i + 1]) < 0 THEN Fail
                ELSE scanstring(t, i + 2, Append(acc, Unescape(t[i + 1])))
           ELSE LET u == Hex4(t, i + 2)
                    paired == /\ u \in 55296..56319
                              /\ StartsAt(t, i + 6, <<92, 117>>)
                    u2 == Hex4(t, i + 8)
                IN  IF u < 0 THEN Fail
                    ELSE IF ~paired THEN scanstring(t, i + 6, Append(acc, u))
                    ELSE IF u2 < 0 THEN Fail
                    ELSE IF u2 \in 56320..57343
                    THEN scanstring(t, i + 12,
                                    Append(acc, 65536 + (u - 55296) * 1024 + (u2 - 56320)))
                    ELSE scanstring(t, i + 6, Append(acc, u))

RECURSIVE DigitsEnd(_, _)
DigitsEnd(t, i) == IF i <= Len(t) /\ t[i] \in Digits THEN DigitsEnd(t, i + 1) ELSE i

\* -?(0|[1-9]\d*)(\.\d+)?([eE][-+]?\d+)? at position i
match_number(t, i) ==
  LET j == IF At(t, i, 45) THEN i + 1 ELSE i
      intEnd == IF At(t, j, 48) THEN j + 1
                ELSE IF j <= Len(t) /\ t[j] \in 49..57 THEN DigitsEnd(t, j + 1)
                ELSE 0
      fracEnd == IF At(t, intEnd, 46) /\ DigitsEnd(t, intEnd + 1) > intEnd + 1
                 THEN DigitsEnd(t, intEnd + 1) ELSE intEnd
      signEnd == IF fracEnd + 1 <= Len(t) /\ t[fracEnd + 1] \in {43, 45}
                 THEN fracEnd + 2 ELSE fracEnd + 1
      expEnd == IF fracEnd <= Len(t) /\ t[fracEnd] \in {69, 101} /\ DigitsEnd(t, signEnd) > signEnd
                THEN DigitsEnd(t, signEnd) ELSE fracEnd
      mantissa == SubSeq(t, j, fracEnd - 1)
  IN  IF intEnd = 0 THEN Fail
      ELSE Parsed([t |-> "number",
                   zero |-> \A k \in 1..Len(mantissa) : mantissa[k] \in {48, 46}],
                  expEnd)

RECURSIVE scan_once(_, _)
RECURSIVE parse_members(_, _, _)
RECURSIVE parse_items(_, _, _)

\* after "{" or ",": "key" : value, then "}" or ","
parse_members(t, i, acc) ==
  IF ~At(t, i, 34) THEN Fail
  ELSE LET key == scanstring(t, i + 1, <<>>)
       IN  IF ~key.ok THEN Fail
           ELSE LET colon == skip_ws(t, key.i)
                IN  IF ~At(t, colon, 58) THEN Fail
                    ELSE LET val == scan_once(t, skip_ws(t, colon + 1))
                         IN  IF ~val.ok THEN Fail
                             ELSE LET next == skip_ws(t, val.i)
                                      members == Append(acc, <<key.v, val.v>>)
                                  IN  IF At(t, next, 125)
                                      THEN Parsed([t |-> "object", members |-> members], next + 1)
                                      ELSE IF At(t, next, 44)
                                      THEN parse_members(t, skip_ws(t, next + 1), members)
                                      ELSE Fail

\* after "[" or ",": value, then "]" or ","
parse_items(t, i, acc) ==
  LET val == scan_once(t, i)
  IN  IF ~val.ok THEN Fail
      ELSE LET next == skip_ws(t, val.i)
               items == Append(acc, val.v)
           IN  IF At(t, next, 93) THEN Parsed([t |-> "array", items |-> items], next + 1)
               ELSE IF At(t, next, 44) THEN parse_items(t, skip_ws(t, next + 1), items)
               ELSE Fail

scan_once(t, i) ==
  IF i > Len(t) THEN Fail
  ELSE IF t[i] = 34
  THEN LET r == scanstring(t, i + 1, <<>>)
       IN  IF r.ok THEN Parsed([t |-> "string", s |-> r.v], r.i) ELSE Fail
  ELSE IF t[i] = 123
  THEN IF At(t, skip_ws(t, i + 1), 125)
       THEN Parsed([t |-> "object", members |-> <<>>], skip_ws(t, i + 1) + 1)
       ELSE parse_members(t, skip_ws(t, i + 1), <<>>)
  ELSE IF t[i] = 91
  THEN IF At(t, skip_ws(t, i + 1), 93)
       THEN Parsed([t |-> "array", items |-> <<>>], skip_ws(t, i + 1) + 1)
       ELSE parse_items(t, skip_ws(t, i + 1), <<>>)
  ELSE IF StartsAt(t, i, Ords("null")) THEN Parsed([t |-> "null"], i + 4)
  ELSE IF StartsAt(t, i, Ords("true")) THEN Parsed([t |-> "true"], i + 4)
  ELSE IF StartsAt(t, i, Ords("false")) THEN Parsed([t |-> "false"], i + 5)
  ELSE IF StartsAt(t, i, Ords("NaN")) THEN Parsed([t |-> "number", zero |-> FALSE], i + 3)
  ELSE IF StartsAt(t, i, Ords("Infinity")) THEN Parsed([t |-> "number", zero |-> FALSE], i + 8)
  ELSE IF StartsAt(t, i, Ords("-Infinity")) THEN Parsed([t |-> "number", zero |-> FALSE], i + 9)
  ELSE match_number(t, i)

json_loads(text) ==
  IF At(text, 1, 65279) THEN Fail          \* a BOM is refused
  ELSE LET r == scan_once(text, skip_ws(text, 1))
       IN  IF r.ok /\ skip_ws(text, r.i) = Len(text) + 1 THEN r ELSE Fail

\* dict.get(key): the value of the last member named key, or None
dict_get(obj, key) ==
  LET hits == {k \in 1..Len(obj.members) : obj.members[k][1] = key}
  IN  IF hits = {} THEN None
      ELSE LET last == CHOOSE k \in hits : \A j \in hits : j <= k
               v == obj.members[last][2]
           IN  IF v.t = "null" THEN None ELSE Some(v)

\* bool(v) of a value that is not None
truthy(v) ==
  IF v.t = "string" THEN Len(v.s) > 0
  ELSE IF v.t = "number" THEN ~v.zero
  ELSE IF v.t = "array" THEN Len(v.items) > 0
  ELSE IF v.t = "object" THEN Len(v.members) > 0
  ELSE v.t = "true"

(***************************************************************************)
(* The DOM as the scraper's selectors see it.                               *)
(*   tile  (.poster)        [link, title, year]: link is NoElem or          *)
(*                          <<[href |-> None or <<url>>]>> (a.img-responsive)*)
(*                          title, year are NoElem or <<text>> (.film_title, *)
(*                          .film_year under the tile's parent)              *)
(*   item  (#episode-list ul li)  [has_span, anchor]: anchor is NoElem or    *)
(*                          <<[href |-> None or <<url>>, text |-> str]>>     *)
(*   row   (#links tbody tr)      [cells, anchor]: cells are the td texts,   *)
(*                          anchor is NoElem or <<[text |-> str,             *)
(*                          data_iframe |-> None or <<str>>]>>, the anchor   *)
(*                          of td.link-to-video                              *)
(***************************************************************************)
is_movie_url(url) == Contains("/m/", url) \/ Contains("/film/", url)
is_series_url(url) == Contains("/s/", url) \/ Contains("/serial/", url)

\* line 346
item_type_of(url) ==
  IF is_series_url(url) THEN "serial" ELSE IF is_movie_url(url) THEN "film" ELSE "unknown"

\* lines 332-353, from tile k on: [results, raised].  A missing link or title
\* is NoSuchElementException (the tile is skipped); a link without href makes
\* the "in" test raise TypeError, which leaves the loop (line 356).
RECURSIVE search_results_from(_, _, _, _)
search_results_from(posters, k, content_type, results) ==
  IF k > Len(posters) THEN [results |-> results, raised |-> FALSE]
  ELSE LET poster == posters[k]
       IN  IF poster.link = NoElem \/ poster.title = NoElem
           THEN search_results_from(posters, k + 1, content_type, results)
           ELSE IF poster.link[1].href = None
           THEN [results |-> results, raised |-> TRUE]
           ELSE LET url == poster.link[1].href[1]
                    title == strip(poster.title[1])
                    year == IF poster.year = NoElem THEN "" ELSE strip(poster.year[1])
                    item_type == item_type_of(url)
                IN  IF content_type # None /\ content_type[1] # ""
                       /\ item_type # lower(content_type[1])
                    THEN search_results_from(posters, k + 1, content_type, results)
                    ELSE search_results_from(posters, k + 1, content_type,
                           Append(results, [title |-> title, url |-> url,
                                            type |-> item_type, year |-> year]))

\* lines 324-358: the returned list
get_search_results(posters, content_type) ==
  search_results_from(posters, 1, content_type, <<>>).results

\* lines 367-378, from tile k on: the DOM positions of the tiles kept, or
\* raised when a link without href is met
RECURSIVE filtered_posters_from(_, _, _, _)
filtered_posters_from(posters, k, content_type, kept) ==
  IF k > Len(posters) THEN [kept |-> kept, raised |-> FALSE]
  ELSE LET poster == posters[k]
       IN  IF poster.link = NoElem
           THEN filtered_posters_from(posters, k + 1, content_type, kept)
           ELSE IF poster.link[1].href = None
           THEN [kept |-> kept, raised |-> TRUE]
           ELSE LET url == poster.link[1].href[1]
                    wanted == lower(content_type)
                IN  IF (wanted = "serial" /\ is_series_url(url))
                       \/ (wanted = "film" /\ is_movie_url(url))
                    THEN filtered_posters_from(posters, k + 1, content_type, Append(kept, k))
                    ELSE filtered_posters_from(posters, k + 1, content_type, kept)

filtered_posters(posters, content_type) ==
  IF content_type # None /\ content_type[1] # ""
  THEN filtered_posters_from(posters, 1, content_type[1], <<>>)
  ELSE [kept |-> [k \in 1..Len(posters) |-> k], raised |-> FALSE]

\* lines 362-397 up to the click: the DOM position of the tile whose link is
\* clicked, or 0 when the method returns False without clicking.  A negative
\* index counts from the end of the list, as Python's indexing does.
select_target(posters, index, content_type) ==
  LET f == filtered_posters(posters, content_type)
      n == Len(f.kept)
  IN  IF f.raised THEN 0
      ELSE IF n = 0 \/ n <= index THEN 0
      ELSE IF index < -n THEN 0
      ELSE LET k == f.kept[IF index >= 0 THEN index + 1 ELSE n + index + 1]
           IN  IF posters[k].link = NoElem THEN 0 ELSE k

\* re.match(r'\[([^\]]+)\]\s*(.*)', full_text): None or <<group 1, group 2>>
episode_match(full_text) ==
  LET n == Len(full_text)
      closing == {i \in 2..n : Ch(full_text, i) = "]"}
  IN  IF n = 0 \/ Ch(full_text, 1) # "[" \/ closing = {} THEN None
      ELSE LET close == CHOOSE i \in closing : \A j \in closing : i <= j
               rest == lstrip(SubSeq(full_text, close + 1, n))
               newlines == {i \in 1..Len(rest) : Ch(rest, i) = "\n"}
               stop == IF newlines = {} THEN Len(rest) + 1
                       ELSE CHOOSE i \in newlines : \A j \in newlines : i <= j
           IN  IF close = 2 THEN None
               ELSE Some(<<SubSeq(full_text, 2, close - 1), SubSeq(rest, 1, stop - 1)>>)

\* lines 428-438 with a pattern that never matches
episode_of_unsplit(anchor) ==
  [episode |-> strip(anchor.text), title |-> "", url |-> anchor.href]

\* lines 428-438: the episode of one list item's anchor
episode_of(anchor) ==
  LET full_text == strip(anchor.text)
      match == episode_match(full_text)
  IN  IF match # None
      THEN [episode |-> upper(match[1][1]), title |-> strip(match[1][2]), url |-> anchor.href]
      ELSE [episode |-> full_text, title |-> "", url |-> anchor.href]

\* lines 423-440 with a loop that ends at the first item it does not take
RECURSIVE episodes_until_skipped(_, _)
episodes_until_skipped(items, k) ==
  IF k > Len(items) THEN <<>>
  ELSE IF items[k].has_span \/ items[k].anchor = NoElem THEN <<>>
  ELSE <<episode_of(items[k].anchor[1])>> \o episodes_until_skipped(items, k + 1)

\* lines 423-440, from item k on
RECURSIVE episodes_from(_, _)
episodes_from(items, k) ==
  IF k > Len(items) THEN <<>>
  ELSE IF items[k].has_span \/ items[k].anchor = NoElem
  THEN episodes_from(items, k + 1)
  ELSE <<episode_of(items[k].anchor[1])>> \o episodes_from(items, k + 1)

\* lines 403-443 without the movie branch of lines 409-417
extract_episodes_of_list(page) == episodes_from(page.items, 1)

\* lines 403-443 on a page [current_url, heading, items]
extract_episodes(page) ==
  IF is_movie_url(page.current_url)
  THEN <<[episode |-> "FILM",
          title |-> IF page.heading = NoElem THEN "Film" ELSE strip(page.heading[1]),
          url |-> Some(page.current_url)]>>
  ELSE episodes_from(page.items, 1)

ALLOWED_PROVIDERS == <<"doodstream", "voe.sx", "savefiles", "vid-guard", "streamup">>

\* line 473: [raised, provider]; split()[0] of a text of blanks is IndexError
provider_of(text) ==
  IF text = "" THEN [raised |-> FALSE, provider |-> "unknown"]
  ELSE LET tokens == split(lower(strip(text)))
       IN  IF tokens = <<>> THEN [raised |-> TRUE, provider |-> ""]
           ELSE [raised |-> FALSE, provider |-> tokens[1]]

\* line 475 without its test: every provider passes
provider_unfiltered(provider) == TRUE

\* line 475
provider_allowed(provider) ==
  \E k \in 1..Len(ALLOWED_PROVIDERS) : Contains(ALLOWED_PROVIDERS[k], provider)

\* lines 484-496: streaming_url, None or <<the value of src>>
streaming_url_of(data_iframe) ==
  IF data_iframe = "" THEN None
  ELSE LET raw == b64decode(data_iframe)
           decoded == utf8_decode(raw.bytes)
           iframe_data == json_loads(decoded.text)
       IN  IF ~raw.ok THEN None
           ELSE IF ~decoded.ok THEN None
           ELSE IF ~iframe_data.ok THEN None
           ELSE IF iframe_data.v.t # "object" THEN None
           ELSE dict_get(iframe_data.v, Ords("src"))

\* lines 467-503 without the test of line 498: a row of an allowed provider
\* appends a link whatever its payload gave
row_links_unguarded(row) ==
  IF Len(row.cells) < 3 \/ row.anchor = NoElem THEN <<>>
  ELSE LET p == provider_of(row.anchor[1].text)
       IN  IF p.raised \/ ~provider_allowed(p.provider) THEN <<>>
           ELSE <<[provider |-> p.provider, url |-> None,
                   quality |-> strip(row.cells[3]), version |-> strip(row.cells[2])]>>

\* lines 467-503: what one row appends to links
row_links(row) ==
  IF Len(row.cells) < 3 THEN <<>>
  ELSE IF row.anchor = NoElem \/ row.anchor[1].data_iframe = None THEN <<>>
  ELSE LET link_elem == row.anchor[1]
           p == provider_of(link_elem.text)
           streaming_url == streaming_url_of(link_elem.data_iframe[1])
       IN  IF p.raised THEN <<>>
           ELSE IF ~provider_allowed(p.provider) THEN <<>>
           ELSE IF streaming_url = None THEN <<>>
           ELSE IF ~truthy(streaming_url[1]) THEN <<>>
           ELSE <<[provider |-> p.provider, url |-> streaming_url[1],
                   quality |-> strip(row.cells[3]), version |-> strip(row.cells[2])]>>

\* lines 466-506 with each row's link put in front of the earlier ones
RECURSIVE links_from_backwards(_, _)
links_from_backwards(link_rows, k) ==
  IF k > Len(link_rows) THEN <<>>
  ELSE links_from_backwards(link_rows, k + 1) \o row_links(link_rows[k])

\* lines 466-506 on the rows found by line 463
RECURSIVE links_from(_, _)
links_from(link_rows, k) ==
  IF k > Len(link_rows) THEN <<>>
  ELSE row_links(link_rows[k]) \o links_from(link_rows, k + 1)

(***************************************************************************)
(* The year of a /api/scrape/search request: None when the body has no      *)
(* 'year' (or null), else <<[t |-> "int", n |-> number]>> or                *)
(* <<[t |-> "string", s |-> text]>>.                                        *)
(***************************************************************************)
DecimalDigits == "0123456789"

\* str(n) of an int
RECURSIVE str_of_nat(_)
str_of_nat(n) ==
  IF n < 10 THEN Ch(DecimalDigits, n + 1)
  ELSE str_of_nat(n \div 10) \o Ch(DecimalDigits, (n % 10) + 1)
str_of(v) ==
  IF v.t = "string" THEN v.s
  ELSE IF v.n < 0 THEN "-" \o str_of_nat(-v.n) ELSE str_of_nat(v.n)

\* app.py line 288: if year
year_given(year) ==
  year # None /\ (IF year[1].t = "string" THEN year[1].s # "" ELSE year[1].n # 0)

\* app.py lines 292-296: the position (from 0) of the first result of that
\* year from result i on, or None when the loop ends without break
RECURSIVE first_of_year(_, _, _)
first_of_year(search_results, year_str, i) ==
  IF i > Len(search_results) THEN None
  ELSE IF search_results[i].year = year_str THEN Some(i - 1)
  ELSE first_of_year(search_results, year_str, i + 1)

\* app.py lines 287-296 with the else of the loop ignored: the first result
\* is taken whatever the year
result_index_first(search_results, year) == 0

\* app.py lines 287-299
result_index(search_results, year) ==
  IF ~year_given(year) THEN 0
  ELSE LET found == first_of_year(search_results, str_of(year[1]), 1)
       IN  IF found = None THEN 0 ELSE found[1]

(***************************************************************************)
(* Cookies.  A cookie dict of a list passed to inject_cookies is a record   *)
(* [name, value, domain], each None when the key is absent and <<str>> when *)
(* present.  The browser's cookie store (the profile's) is a set of records *)
(* [name, value, domain] of strings; a cookie replaces the stored one of    *)
(* the same name and domain.                                                *)
(***************************************************************************)
\* app.py line 21 with HEADLESS_MODE unset in the environment
HEADLESS_MODE == TRUE

BASE_URL == "https://filman.cc"
LOGIN_URL == "https://filman.cc/logowanie"
SEARCH_URL == "https://filman.cc/item?phrase="
DEFAULT_DOMAIN == ".filman.cc"

dotted(domain) == IF Len(domain) > 0 /\ Ch(domain, 1) = "." THEN domain ELSE "." \o domain

\* driver.add_cookie on a page of BASE_URL: a cookie of another domain is
\* refused with an exception
browser_accepts(cookie) == dotted(cookie.domain[1]) = DEFAULT_DOMAIN

stored(cookie) ==
  [name |-> cookie.name[1], value |-> cookie.value[1], domain |-> dotted(cookie.domain[1])]

jar_add(cookie_jar, cookie) ==
  {c \in cookie_jar : ~(c.name = stored(cookie).name /\ c.domain = stored(cookie).domain)}
    \cup {stored(cookie)}

\* lines 164-178 with an except clause that leaves the loop: the records
\* after one the browser rejects are not added
RECURSIVE add_cookies_until_rejected(_, _, _, _, _)
add_cookies_until_rejected(cookies, k, cookie_jar, added, usable) ==
  IF k > Len(cookies) THEN [cookies |-> cookies, jar |-> cookie_jar, added |-> added]
  ELSE LET cookie == cookies[k]
       IN  IF cookie.name = None \/ cookie.value = None
           THEN add_cookies_until_rejected(cookies, k + 1, cookie_jar, added, usable)
           ELSE LET c == IF cookie.domain = None
                         THEN [cookie EXCEPT !.domain = Some(DEFAULT_DOMAIN)]
                         ELSE cookie
                    changed == [cookies EXCEPT ![k] = c]
                    ok == usable /\ browser_accepts(c)
                    called == Append(added, [cmd |-> "add_cookie", cookie |-> c, ok |-> ok])
                IN  IF ok
                    THEN add_cookies_until_rejected(changed, k + 1, jar_add(cookie_jar, c),
                                                    called, usable)
                    ELSE [cookies |-> changed, jar |-> cookie_jar, added |-> called]

\* lines 164-178 with line 173 followed by continue: a record that is given
\* the default domain is not added in that pass
RECURSIVE add_cookies_defaulted_later(_, _, _, _, _)
add_cookies_defaulted_later(cookies, k, cookie_jar, added, usable) ==
  IF k > Len(cookies) THEN [cookies |-> cookies, jar |-> cookie_jar, added |-> added]
  ELSE LET cookie == cookies[k]
       IN  IF cookie.name = None \/ cookie.value = None
           THEN add_cookies_defaulted_later(cookies, k + 1, cookie_jar, added, usable)
           ELSE IF cookie.domain = None
           THEN add_cookies_defaulted_later(
                  [cookies EXCEPT ![k] = [cookie EXCEPT !.domain = Some(DEFAULT_DOMAIN)]],
                  k + 1, cookie_jar, added, usable)
           ELSE LET ok == usable /\ browser_accepts(cookie)
                IN  add_cookies_defaulted_later(
                      cookies, k + 1,
                      IF ok THEN jar_add(cookie_jar, cookie) ELSE cookie_jar,
                      Append(added, [cmd |-> "add_cookie", cookie |-> cookie, ok |-> ok]),
                      usable)

\* lines 164-178, from record k on.  cookies: the caller's list, whose dicts
\* the loop changes in place (line 173); added: the add_cookie calls made;
\* usable: self.driver is a browser (add_cookie on None raises for each record).
RECURSIVE add_cookies_from(_, _, _, _, _)
add_cookies_from(cookies, k, cookie_jar, added, usable) ==
  IF k > Len(cookies) THEN [cookies |-> cookies, jar |-> cookie_jar, added |-> added]
  ELSE LET cookie == cookies[k]
       IN  IF cookie.name = None \/ cookie.value = None
           THEN add_cookies_from(cookies, k + 1, cookie_jar, added, usable)
           ELSE LET c == IF cookie.domain = None
                         THEN [cookie EXCEPT !.domain = Some(DEFAULT_DOMAIN)]
                         ELSE cookie
                    changed == [cookies EXCEPT ![k] = c]
                    ok == usable /\ browser_accepts(c)
                IN  add_cookies_from(changed, k + 1,
                                     IF ok THEN jar_add(cookie_jar, c) ELSE cookie_jar,
                                     Append(added, [cmd |-> "add_cookie", cookie |-> c, ok |-> ok]),
                                     usable)

add_cookies(cookies, cookie_jar, usable) == add_cookies_from(cookies, 1, cookie_jar, <<>>, usable)

\* lines 206-209: the site shows the logout link or the user menu to a
\* browser that presents a session cookie the server knows
SESSION_COOKIE == "session_id"
ServerSessions == {"example123"}
logged_in_marker(cookie_jar) ==
  \E c \in cookie_jar : c.name = SESSION_COOKIE /\ c.value \in ServerSessions

\* app.py lines 160-169
RECURSIVE split_on(_, _)
split_on(s, sep) ==
  LET at == {i \in 1..Len(s) : Ch(s, i) = sep}
  IN  IF at = {} THEN <<s>>
      ELSE LET i == CHOOSE i \in at : \A j \in at : i <= j
           IN  <<SubSeq(s, 1, i - 1)>> \o split_on(SubSeq(s, i + 1, Len(s)), sep)

RECURSIVE cookies_of_segments(_, _)
cookies_of_segments(segments, k) ==
  IF k > Len(segments) THEN <<>>
  ELSE LET cookie == strip(segments[k])
           eq == {i \in 1..Len(cookie) : Ch(cookie, i) = "="}
       IN  IF eq = {} THEN cookies_of_segments(segments, k + 1)
           ELSE LET i == CHOOSE i \in eq : \A j \in eq : i <= j
                IN  <<[name |-> Some(strip(SubSeq(cookie, 1, i - 1))),
                       value |-> Some(strip(SubSeq(cookie, i + 1, Len(cookie)))),
                       domain |-> Some(DEFAULT_DOMAIN)]>>
                    \o cookies_of_segments(segments, k + 1)

\* app.py lines 160-169 with the string cut at commas
parse_cookie_string_at_commas(cookie_string) ==
  cookies_of_segments(split_on(cookie_string, ","), 1)

parse_cookie_string(cookie_string) == cookies_of_segments(split_on(cookie_string, ";"), 1)

(***************************************************************************)
(* The state machine.                                                       *)
(*                                                                          *)
(* Threads run calls; a call is a chain of steps, one per label, and pc[t]  *)
(* is the label thread t executes next ("idle": between calls).  A step is  *)
(* the code from one browser command or blocking point up to the next.      *)
(* stack[t] holds the frames of the callers: the label of the call site     *)
(* (where an exception of the callee arrives) and the label to return to.   *)
(***************************************************************************)
VARIABLES
  scraper_instance,  \* app.py:25   None or <<object id>>
  scraper_lock,      \* app.py:26   None or <<thread holding it>>
  session_cookies,   \* app.py:27   None or <<cookie list>>
  cookies_file,      \* COOKIES_FILE: None or <<cookie list>>
  driver,            \* FilmanScraper.driver of each object: None or <<browser>>
  is_logged_in,      \* FilmanScraper.is_logged_in of each object
  headless,          \* FilmanScraper.headless of each object
  live,              \* browsers started and not quit
  launched,          \* browsers started so far
  page,              \* the document each browser shows
  jar,               \* the cookie store of the Chrome profile
  site,              \* what the site serves: the elements of a loaded page
  pc, stack,         \* per thread: next label, frames of the callers
  self,              \* per thread: the FilmanScraper object it works on (0: none)
  loc,               \* per thread: arguments and locals of the running method
  rv,                \* per thread: outcome of the last returned call
  call,              \* per thread: the outermost call, running or last finished
  prev,              \* per thread: what preceded the outermost call (history)
  log                \* per thread: browser commands issued by the outermost call

vars == <<scraper_instance, scraper_lock, session_cookies, cookies_file, driver,
          is_logged_in, headless, live, launched, page, jar, site, pc, stack, self, loc,
          rv, call, prev, log>>

app_vars == <<scraper_instance, scraper_lock, session_cookies, cookies_file>>
browser_vars == <<live, launched, page, jar>>
ghost_vars == <<call, prev>>

Threads == DOMAIN pc
Objects == 1..MaxInstances
Browsers == 1..MaxLaunches

Document(url, elements, logout) ==
  [current_url |-> url, posters |-> elements.posters, heading |-> elements.heading,
   items |-> elements.items, link_rows |-> elements.link_rows,
   search_input |-> elements.search_input, logout |-> logout]
NoElements ==
  [posters |-> <<>>, heading |-> NoElem, items |-> <<>>, link_rows |-> <<>>,
   search_input |-> FALSE]
BlankPage == Document("data:,", NoElements, FALSE)

Returned(v) == [raised |-> FALSE, value |-> v]
Raised == [raised |-> TRUE, value |-> None]
NoBody == [keys |-> {}]
NoLocals == [cookies |-> <<>>, shared |-> FALSE, data |-> NoBody, content_type |-> None,
             index |-> 0, episode_url |-> "", results |-> <<>>,
             include_streaming_links |-> FALSE, auto_relogin_headless |-> TRUE,
             original_headless |-> FALSE, episodes |-> <<>>, i |-> 0]

\* going on inside a method, and calling one: the last outcome has been used
Goto(label, stk) == [pc |-> label, stack |-> stk, rv |-> Returned(None)]
Enter(entry, site_label, ret_label, stk) ==
  [pc |-> entry, stack |-> <<[site |-> site_label, ret |-> ret_label]>> \o stk,
   rv |-> Returned(None)]

\* a return statement: back to the caller's return label, or the call is over
Return(stk, v) ==
  IF stk = <<>> THEN [pc |-> "idle", stack |-> <<>>, rv |-> Returned(v)]
  ELSE [pc |-> Head(stk).ret, stack |-> Tail(stk), rv |-> Returned(v)]

\* no except clause: every exception goes to the caller
Catch_nothing(label) == [do |-> "raise"]

\* the except clause enclosing a label: what it does with an exception
Catch(label) ==
  CASE label \in {"cil_enter", "cil_get", "cil_find"}     \* lines 216-218
         -> [do |-> "return", value |-> FALSE]
    [] label \in {"ss_enter", "ss_get", "ss_input"}       \* lines 316-318
         -> [do |-> "return", value |-> FALSE]
    [] label \in {"lm_enter", "lm_get", "lm_wait_form", "lm_wait_marker", "lm_fallback"}
         -> [do |-> "return", value |-> FALSE]            \* lines 290-292
    [] label = "gsr_find"                                 \* lines 356-358
         -> [do |-> "return", value |-> <<>>]
    [] label = "sel_click"                                \* lines 395-397
         -> [do |-> "return", value |-> FALSE]
    [] label = "ee_find"                                  \* lines 444-447
         -> [do |-> "return", value |-> <<>>]
    [] label \in {"esl_get", "esl_rows"}                  \* lines 507-510
         -> [do |-> "return", value |-> <<>>]
    [] label \in {"sc_enter", "sc_login", "sc_checked", "sc_gui", "sc_gui_login",
                  "sc_gui_logged", "sc_headless", "sc_final", "sc_search", "sc_searched",
                  "sc_select", "sc_selected", "sc_episodes"}
         -> [do |-> "return", value |-> <<>>]             \* lines 569-572
    [] label = "gs_inject"                                \* app.py 74-75
         -> [do |-> "goto", pc |-> "gs_cil"]
    [] label = "us_inject"                                \* app.py 198-203
         -> [do |-> "goto", pc |-> "us_failed"]
    [] label = "us_parse"                                 \* app.py 212-217
         -> [do |-> "goto", pc |-> "us_error"]
    [] label \in {"sl_parse", "sl_scraper", "sl_auth", "sl_links"}
         -> [do |-> "goto", pc |-> "sl_error"]            \* app.py 406-411
    [] label \in {"sq_parse", "sq_scraper", "sq_search", "sq_results", "sq_select",
                  "sq_episodes"}
         -> [do |-> "goto", pc |-> "sq_error"]            \* app.py 265-270, 329-334
    [] OTHER -> [do |-> "raise"]                          \* re-raised or no handler

\* an exception raised at a label: caught there, or it unwinds to the call site
RECURSIVE Throw(_, _)
Throw(label, stk) ==
  LET c == Catch(label)
  IN  CASE c.do = "return" -> Return(stk, c.value)
        [] c.do = "goto" -> Goto(c.pc, stk)
        [] OTHER -> IF stk = <<>> THEN [pc |-> "idle", stack |-> <<>>, rv |-> Raised]
                    ELSE Throw(Head(stk).site, Tail(stk))


\* thread t goes on as r says
Continue(t, r) ==
  /\ pc' = [pc EXCEPT ![t] = r.pc]
  /\ stack' = [stack EXCEPT ![t] = r.stack]
  /\ rv' = [rv EXCEPT ![t] = r.rv]

\* the command log is kept where log is a function of the threads
\* (ok: the browser carried the command out)
Issue(t, commands) ==
  log' = IF DOMAIN log = {} THEN log ELSE [log EXCEPT ![t] = @ \o commands]

\* the document the browser of thread t's scraper shows
Shown(t) ==
  IF self[t] # 0 /\ driver[self[t]] # None THEN page[driver[self[t]][1]] ELSE BlankPage

\* thread t begins an outermost call
Begin(t, op, args, entry, frames) ==
  /\ pc[t] = "idle"
  /\ pc' = [pc EXCEPT ![t] = entry]
  /\ stack' = [stack EXCEPT ![t] = frames]
  /\ call' = [call EXCEPT ![t] = [op |-> op, args |-> args, page |-> Shown(t)]]
  /\ prev' = IF DOMAIN prev = {} THEN prev
             ELSE [prev EXCEPT ![t] = [call |-> call[t], rv |-> rv[t], jar |-> jar,
                                       cookies |-> loc[t].cookies]]
  /\ log' = IF DOMAIN log = {} THEN log ELSE [log EXCEPT ![t] = <<>>]
  /\ UNCHANGED rv

\* the document the site sends for url to the browser of the profile; result
\* tiles are on the search page only
Load(url) ==
  Document(url, IF url = SEARCH_URL THEN site ELSE [site EXCEPT !.posters = <<>>],
           logged_in_marker(jar))

(***************************************************************************)
(* FilmanScraper._init_driver, lines 101-132                                *)
(***************************************************************************)
\* line 122: webdriver.Chrome(options) starts a browser or raises
init_chrome(t) ==
  /\ pc[t] = "init_chrome"
  /\ \E started \in BOOLEAN :
       LET ok == started /\ launched < MaxLaunches
       IN  /\ Issue(t, <<[cmd |-> "Chrome", ok |-> ok, headless |-> headless[self[t]]]>>)
           /\ IF ok
              THEN /\ launched' = launched + 1
                   /\ live' = live \cup {launched + 1}
                   /\ page' = [page EXCEPT ![launched + 1] = BlankPage]
                   /\ driver' = [driver EXCEPT ![self[t]] = Some(launched + 1)]
                   /\ Continue(t, Goto("init_script", stack[t]))
              ELSE /\ driver' = [driver EXCEPT ![self[t]] = None]
                   /\ Continue(t, Throw("init_chrome", stack[t]))
                   /\ UNCHANGED <<launched, live, page>>
  /\ UNCHANGED <<app_vars, is_logged_in, jar, site, self, loc, headless, ghost_vars>>

\* lines 125-132 without the assignment of line 131: the handle of the
\* browser outlives the failure
init_script_keeping_handle(t) ==
  /\ pc[t] = "init_script"
  /\ \E done \in BOOLEAN :
       LET ok == done /\ driver[self[t]] # None
       IN  /\ Issue(t, <<[cmd |-> "execute_script", ok |-> ok]>>)
           /\ IF ok
              THEN Continue(t, Return(stack[t], None))
              ELSE Continue(t, Throw("init_script", stack[t]))
  /\ UNCHANGED <<app_vars, driver, is_logged_in, browser_vars, site, self, loc, headless,
                 ghost_vars>>

\* line 125: execute_script; when it raises the browser of line 122 is dropped
\* without quit (lines 128-132)
init_script(t) ==
  /\ pc[t] = "init_script"
  /\ \E done \in BOOLEAN :
       LET ok == done /\ driver[self[t]] # None
       IN  /\ Issue(t, <<[cmd |-> "execute_script", ok |-> ok]>>)
           /\ IF ok
              THEN /\ Continue(t, Return(stack[t], None))
                   /\ UNCHANGED driver
              ELSE /\ driver' = [driver EXCEPT ![self[t]] = None]
                   /\ Continue(t, Throw("init_script", stack[t]))
  /\ UNCHANGED <<app_vars, is_logged_in, browser_vars, site, self, loc, headless, ghost_vars>>

(***************************************************************************)
(* FilmanScraper.close, lines 575-585                                       *)
(***************************************************************************)
\* lines 575-585 without the finally clause: the handle is kept when quit raises
close_keeping_handle(t) ==
  /\ pc[t] = "close"
  /\ IF driver[self[t]] = None
     THEN /\ Continue(t, Return(stack[t], None))
          /\ UNCHANGED <<driver, live, log>>
     ELSE \E outcome \in {"quit", "raised, browser gone", "raised, browser running"} :
            /\ live' = IF outcome = "raised, browser running" THEN live
                       ELSE live \ {driver[self[t]][1]}
            /\ driver' = IF outcome = "quit" THEN [driver EXCEPT ![self[t]] = None] ELSE driver
            /\ Issue(t, <<[cmd |-> "quit", ok |-> outcome = "quit"]>>)
            /\ Continue(t, Return(stack[t], None))
  /\ UNCHANGED <<app_vars, is_logged_in, launched, page, jar, site, self, loc, headless, ghost_vars>>

close(t) ==
  /\ pc[t] = "close"
  /\ IF driver[self[t]] = None
     THEN /\ Continue(t, Return(stack[t], None))
          /\ UNCHANGED <<driver, live, log>>
     ELSE \E outcome \in {"quit", "raised, browser gone", "raised, browser running"} :
            /\ live' = IF outcome = "raised, browser running" THEN live
                       ELSE live \ {driver[self[t]][1]}
            /\ driver' = [driver EXCEPT ![self[t]] = None]
            /\ Issue(t, <<[cmd |-> "quit", ok |-> outcome = "quit"]>>)
            /\ Continue(t, Return(stack[t], None))
  /\ UNCHANGED <<app_vars, is_logged_in, launched, page, jar, site, self, loc, headless, ghost_vars>>

(***************************************************************************)
(* FilmanScraper.check_if_logged_in, lines 189-218                          *)
(***************************************************************************)
\* lines 195-196
cil_enter(t) ==
  /\ pc[t] = "cil_enter"
  /\ IF driver[self[t]] = None
     THEN Continue(t, Enter("init_chrome", "cil_enter", "cil_get", stack[t]))
     ELSE Continue(t, Goto("cil_get", stack[t]))
  /\ UNCHANGED <<app_vars, driver, is_logged_in, browser_vars, site, self, loc, headless, ghost_vars, log>>

\* lines 199-204
cil_get(t) ==
  /\ pc[t] = "cil_get"
  /\ IF driver[self[t]] = None
     THEN /\ Continue(t, Return(stack[t], FALSE))
          /\ UNCHANGED <<page, log>>
     ELSE \E loaded \in BOOLEAN :
            /\ Issue(t, <<[cmd |-> "get", ok |-> loaded]>>)
            /\ IF loaded
               THEN /\ page' = [page EXCEPT ![driver[self[t]][1]] = Load(BASE_URL)]
                    /\ Continue(t, Goto("cil_find", stack[t]))
               ELSE /\ Continue(t, Throw("cil_get", stack[t]))
                    /\ UNCHANGED page
  /\ UNCHANGED <<app_vars, driver, is_logged_in, live, launched, jar, site, self, loc, headless, ghost_vars>>

\* lines 206-215
cil_find(t) ==
  /\ pc[t] = "cil_find"
  /\ \E found \in BOOLEAN :
       LET ok == found /\ driver[self[t]] # None
       IN  /\ Issue(t, <<[cmd |-> "find_elements", ok |-> ok]>>)
           /\ IF ok
              THEN IF page[driver[self[t]][1]].logout
                   THEN /\ is_logged_in' = [is_logged_in EXCEPT ![self[t]] = TRUE]
                        /\ Continue(t, Return(stack[t], TRUE))
                   ELSE /\ Continue(t, Return(stack[t], FALSE))
                        /\ UNCHANGED is_logged_in
              ELSE /\ Continue(t, Throw("cil_find", stack[t]))
                   /\ UNCHANGED is_logged_in
  /\ UNCHANGED <<app_vars, driver, browser_vars, site, self, loc, headless, ghost_vars>>

(***************************************************************************)
(* FilmanScraper.inject_cookies, lines 145-187.  loc[t].cookies is the list *)
(* passed; loc[t].shared says that it is the list session_cookies names.    *)
(***************************************************************************)
\* lines 153-154
inj_enter(t) ==
  /\ pc[t] = "inj_enter"
  /\ IF driver[self[t]] = None
     THEN Continue(t, Enter("init_chrome", "inj_enter", "inj_get", stack[t]))
     ELSE Continue(t, Goto("inj_get", stack[t]))
  /\ UNCHANGED <<app_vars, driver, is_logged_in, browser_vars, site, self, loc, headless, ghost_vars, log>>

\* lines 156-161
inj_get(t) ==
  /\ pc[t] = "inj_get"
  /\ IF driver[self[t]] = None
     THEN /\ Continue(t, Throw("inj_get", stack[t]))
          /\ UNCHANGED <<page, log>>
     ELSE \E loaded \in BOOLEAN :
            /\ Issue(t, <<[cmd |-> "get", ok |-> loaded]>>)
            /\ IF loaded
               THEN /\ page' = [page EXCEPT ![driver[self[t]][1]] = Load(BASE_URL)]
                    /\ Continue(t, Goto("inj_add", stack[t]))
               ELSE /\ Continue(t, Throw("inj_get", stack[t]))
                    /\ UNCHANGED page
  /\ UNCHANGED <<app_vars, driver, is_logged_in, live, launched, jar, site, self, loc, headless, ghost_vars>>

\* lines 164-178
inj_add(t) ==
  /\ pc[t] = "inj_add"
  /\ LET r == add_cookies(loc[t].cookies, jar, driver[self[t]] # None)
     IN  /\ jar' = r.jar
         /\ loc' = [loc EXCEPT ![t].cookies = r.cookies]
         /\ session_cookies' = IF loc[t].shared /\ session_cookies = Some(loc[t].cookies)
                               THEN Some(r.cookies) ELSE session_cookies
         /\ Issue(t, r.added)
  /\ Continue(t, Goto("inj_refresh", stack[t]))
  /\ UNCHANGED <<scraper_instance, scraper_lock, cookies_file, driver, is_logged_in,
                 live, launched, page, site, self, headless, ghost_vars>>

\* a refresh that goes on to read the logout marker
inj_refresh_checking(t) ==
  /\ pc[t] = "inj_refresh"
  /\ \E loaded \in BOOLEAN :
       LET ok == loaded /\ driver[self[t]] # None
       IN  /\ Issue(t, <<[cmd |-> "refresh", ok |-> ok]>>)
           /\ IF ok
              THEN /\ page' = [page EXCEPT ![driver[self[t]][1]] = Load(@.current_url)]
                   /\ Continue(t, Goto("cil_find", stack[t]))
              ELSE /\ Continue(t, Throw("inj_refresh", stack[t]))
                   /\ UNCHANGED page
  /\ UNCHANGED <<app_vars, driver, is_logged_in, live, launched, jar, site, self, loc, headless, ghost_vars>>

\* lines 181-184
inj_refresh(t) ==
  /\ pc[t] = "inj_refresh"
  /\ \E loaded \in BOOLEAN :
       LET ok == loaded /\ driver[self[t]] # None
       IN  /\ Issue(t, <<[cmd |-> "refresh", ok |-> ok]>>)
           /\ IF ok
              THEN /\ page' = [page EXCEPT ![driver[self[t]][1]] = Load(@.current_url)]
                   /\ Continue(t, Return(stack[t], None))
              ELSE /\ Continue(t, Throw("inj_refresh", stack[t]))
                   /\ UNCHANGED page
  /\ UNCHANGED <<app_vars, driver, is_logged_in, live, launched, jar, site, self, loc, headless, ghost_vars>>

(***************************************************************************)
(* FilmanScraper.login_manual, lines 220-292.  The log records the page a   *)
(* get landed on, how each wait ended, the call of check_if_logged_in of    *)
(* line 285 and the value it gave back.                                     *)
(***************************************************************************)
\* lines 227-229
lm_enter(t) ==
  /\ pc[t] = "lm_enter"
  /\ IF driver[self[t]] = None
     THEN Continue(t, Enter("init_chrome", "lm_enter", "lm_get", stack[t]))
     ELSE Continue(t, Goto("lm_get", stack[t]))
  /\ UNCHANGED <<app_vars, driver, is_logged_in, browser_vars, site, self, loc, headless, ghost_vars, log>>

\* the site answers LOGIN_URL with the login form, or sends a browser that
\* holds a session to the home page
LoginLandings == IF logged_in_marker(jar) THEN {BASE_URL, LOGIN_URL} ELSE {LOGIN_URL}

\* lines 232-243
lm_get(t) ==
  /\ pc[t] = "lm_get"
  /\ IF driver[self[t]] = None
     THEN /\ Continue(t, Return(stack[t], FALSE))
          /\ UNCHANGED <<page, log, is_logged_in>>
     ELSE \E loaded \in BOOLEAN, landing \in LoginLandings :
            IF ~loaded
            THEN /\ Issue(t, <<[cmd |-> "get", ok |-> FALSE]>>)
                 /\ Continue(t, Throw("lm_get", stack[t]))
                 /\ UNCHANGED <<page, is_logged_in>>
            ELSE /\ Issue(t, <<[cmd |-> "get", ok |-> TRUE, landed |-> landing]>>)
                 /\ page' = [page EXCEPT ![driver[self[t]][1]] = Load(landing)]
                 /\ IF ~Contains("/logowanie", landing)
                    THEN /\ is_logged_in' = [is_logged_in EXCEPT ![self[t]] = TRUE]
                         /\ Continue(t, Return(stack[t], TRUE))
                    ELSE /\ Continue(t, Goto("lm_fill", stack[t]))
                         /\ UNCHANGED is_logged_in
  /\ UNCHANGED <<app_vars, driver, live, launched, jar, site, self, loc, headless, ghost_vars>>

\* lines 245-259: the form is filled in when the scraper was given a username
\* and a password; a failure is logged and nothing else
lm_fill(t) ==
  /\ pc[t] = "lm_fill"
  /\ \E fill \in {"no credentials", "filled", "failed"} :
       Issue(t, IF fill = "no credentials" THEN <<>>
                ELSE <<[cmd |-> "fill", ok |-> fill = "filled"]>>)
  /\ Continue(t, Goto("lm_wait_form", stack[t]))
  /\ UNCHANGED <<app_vars, driver, is_logged_in, browser_vars, site, self, loc, headless, ghost_vars>>

\* the session cookie the site sets when the user logs in
UserSession == [name |-> SESSION_COOKIE, value |-> "example123", domain |-> DEFAULT_DOMAIN]

\* lines 266-271: up to MANUAL_CAPTCHA_TIMEOUT seconds for the username field
\* to go.  Meanwhile the user logs in (the site sets its session cookie and
\* shows the home page), or leaves the form, or does nothing; the browser may
\* also fail.
lm_wait_form(t) ==
  /\ pc[t] = "lm_wait_form"
  /\ \E ended \in {"logged in", "left", "timeout", "error"} :
       /\ Issue(t, <<[cmd |-> "wait_form", ok |-> ended # "error", timeout |-> ended = "timeout"]>>)
       /\ jar' = IF ended = "logged in"
                 THEN {c \in jar : c.name # SESSION_COOKIE} \cup {UserSession} ELSE jar
       /\ page' = IF ended \in {"logged in", "left"} /\ driver[self[t]] # None
                  THEN [page EXCEPT ![driver[self[t]][1]] =
                          Document(BASE_URL, [site EXCEPT !.posters = <<>>],
                                   logged_in_marker(jar'))]
                  ELSE page
       /\ CASE ended \in {"logged in", "left"} -> Continue(t, Goto("lm_wait_marker", stack[t]))
            [] ended = "timeout" -> Continue(t, Goto("lm_fallback", stack[t]))
            [] OTHER -> Continue(t, Throw("lm_wait_form", stack[t]))
  /\ UNCHANGED <<app_vars, driver, is_logged_in, live, launched, site, self, loc, headless, ghost_vars>>

\* line 280 without the assignment
login_unconfirmed(flags, object) == flags

\* line 280: self.is_logged_in = True
login_confirmed(flags, object) == [flags EXCEPT ![object] = TRUE]

\* lines 273-282: up to 15 seconds for the logout link to be there
lm_wait_marker(t) ==
  /\ pc[t] = "lm_wait_marker"
  /\ \E answered \in BOOLEAN :
       LET present == driver[self[t]] # None /\ page[driver[self[t]][1]].logout
       IN  /\ Issue(t, <<[cmd |-> "wait_marker", ok |-> answered,
                          timeout |-> answered /\ ~present]>>)
           /\ IF ~answered
              THEN /\ Continue(t, Throw("lm_wait_marker", stack[t]))
                   /\ UNCHANGED is_logged_in
              ELSE IF present
              THEN /\ is_logged_in' = login_confirmed(is_logged_in, self[t])
                   /\ Continue(t, Return(stack[t], TRUE))
              ELSE /\ Continue(t, Goto("lm_fallback", stack[t]))
                   /\ UNCHANGED is_logged_in
  /\ UNCHANGED <<app_vars, driver, browser_vars, site, self, loc, headless, ghost_vars>>

\* line 285: the call of check_if_logged_in in the except TimeoutException clause
lm_fallback(t) ==
  /\ pc[t] = "lm_fallback"
  /\ Issue(t, <<[cmd |-> "check_if_logged_in", ok |-> TRUE]>>)
  /\ Continue(t, Enter("cil_enter", "lm_fallback", "lm_checked", stack[t]))
  /\ UNCHANGED <<app_vars, driver, is_logged_in, browser_vars, site, self, loc, headless, ghost_vars>>

\* lines 285-289 with the result of the check ignored
fallback_failed(checked) == FALSE

\* lines 285-289: True when the check gave True, else False
fallback_result(checked) == checked

lm_checked(t) ==
  /\ pc[t] = "lm_checked"
  /\ Issue(t, <<[cmd |-> "checked", ok |-> TRUE, value |-> rv[t].value]>>)
  /\ Continue(t, Return(stack[t], fallback_result(rv[t].value)))
  /\ UNCHANGED <<app_vars, driver, is_logged_in, browser_vars, site, self, loc, headless, ghost_vars>>

(***************************************************************************)
(* FilmanScraper.search_series, lines 294-318                               *)
(***************************************************************************)
\* lines 298-299
ss_enter(t) ==
  /\ pc[t] = "ss_enter"
  /\ IF driver[self[t]] = None
     THEN Continue(t, Enter("init_chrome", "ss_enter", "ss_get", stack[t]))
     ELSE Continue(t, Goto("ss_get", stack[t]))
  /\ UNCHANGED <<app_vars, driver, is_logged_in, browser_vars, site, self, loc, headless, ghost_vars, log>>

\* lines 301-302
ss_get(t) ==
  /\ pc[t] = "ss_get"
  /\ \E loaded \in BOOLEAN :
       LET ok == loaded /\ driver[self[t]] # None
       IN  /\ Issue(t, <<[cmd |-> "get", ok |-> ok]>>)
           /\ IF ok
              THEN /\ page' = [page EXCEPT ![driver[self[t]][1]] = Load(BASE_URL)]
                   /\ Continue(t, Goto("ss_input", stack[t]))
              ELSE /\ Continue(t, Throw("ss_get", stack[t]))
                   /\ UNCHANGED page
  /\ UNCHANGED <<app_vars, driver, is_logged_in, live, launched, jar, site, self, loc, headless, ghost_vars>>

\* _wait_for_element, lines 134-143, for the search input: the element, or None
\* after the timeout
wait_for_element_assumed(document) == Some("search_input")
wait_for_element(document) == IF document.search_input THEN Some("search_input") ELSE None

\* lines 304-315
ss_input(t) ==
  /\ pc[t] = "ss_input"
  /\ \E sent \in BOOLEAN :
       LET ok == sent /\ driver[self[t]] # None
           search_input == IF ok THEN wait_for_element(page[driver[self[t]][1]]) ELSE None
       IN  /\ Issue(t, IF ok /\ search_input = None
                       THEN <<[cmd |-> "wait_for_element", ok |-> FALSE]>>
                       ELSE <<[cmd |-> "send_keys", ok |-> ok]>>)
           /\ IF ~ok
              THEN /\ Continue(t, Throw("ss_input", stack[t]))
                   /\ UNCHANGED page
              ELSE IF search_input = None
                   THEN /\ Continue(t, Return(stack[t], FALSE))
                        /\ UNCHANGED page
                   ELSE /\ page' = [page EXCEPT ![driver[self[t]][1]] = Load(SEARCH_URL)]
                        /\ Continue(t, Return(stack[t], TRUE))
  /\ UNCHANGED <<app_vars, driver, is_logged_in, live, launched, jar, site, self, loc, headless, ghost_vars>>

(***************************************************************************)
(* FilmanScraper.get_search_results, lines 320-358                          *)
(***************************************************************************)
gsr_find(t) ==
  /\ pc[t] = "gsr_find"
  /\ \E found \in BOOLEAN :
       LET ok == found /\ driver[self[t]] # None
       IN  /\ Issue(t, <<[cmd |-> "find_elements", ok |-> ok]>>)
           /\ IF ok
              THEN Continue(t, Return(stack[t],
                     get_search_results(page[driver[self[t]][1]].posters, loc[t].content_type)))
              ELSE Continue(t, Throw("gsr_find", stack[t]))
  /\ UNCHANGED <<app_vars, driver, is_logged_in, browser_vars, site, self, loc, headless, ghost_vars>>

(***************************************************************************)
(* FilmanScraper.select_result_by_index, lines 360-397                      *)
(***************************************************************************)
\* the click of line 386 on the link of tile k: the browser follows its href
sel_click(t) ==
  /\ pc[t] = "sel_click"
  /\ \E found \in BOOLEAN :
       LET ok == found /\ driver[self[t]] # None
           posters == page[driver[self[t]][1]].posters
           k == select_target(posters, loc[t].index, loc[t].content_type)
       IN  IF ~ok
           THEN /\ Issue(t, <<[cmd |-> "find_elements", ok |-> FALSE]>>)
                /\ Continue(t, Throw("sel_click", stack[t]))
                /\ UNCHANGED page
           ELSE IF k = 0
           THEN /\ Issue(t, <<[cmd |-> "find_elements", ok |-> TRUE]>>)
                /\ Continue(t, Return(stack[t], FALSE))
                /\ UNCHANGED page
           ELSE /\ Issue(t, <<[cmd |-> "find_elements", ok |-> TRUE],
                              [cmd |-> "click", ok |-> TRUE, tile |-> k,
                               href |-> posters[k].link[1].href]>>)
                /\ page' = IF posters[k].link[1].href = None THEN page
                           ELSE [page EXCEPT ![driver[self[t]][1]] =
                                   Load(posters[k].link[1].href[1])]
                /\ Continue(t, Return(stack[t], TRUE))
  /\ UNCHANGED <<app_vars, driver, is_logged_in, live, launched, jar, site, self, loc, headless, ghost_vars>>

(***************************************************************************)
(* FilmanScraper.extract_episodes, lines 399-447                            *)
(***************************************************************************)
ee_find(t) ==
  /\ pc[t] = "ee_find"
  /\ \E found \in BOOLEAN :
       LET ok == found /\ driver[self[t]] # None
       IN  /\ Issue(t, <<[cmd |-> "find_elements", ok |-> ok]>>)
           /\ IF ok
              THEN Continue(t, Return(stack[t], extract_episodes(page[driver[self[t]][1]])))
              ELSE Continue(t, Throw("ee_find", stack[t]))
  /\ UNCHANGED <<app_vars, driver, is_logged_in, browser_vars, site, self, loc, headless, ghost_vars>>

(***************************************************************************)
(* FilmanScraper.extract_streaming_links, lines 449-510                     *)
(***************************************************************************)
\* lines 458-461
esl_get(t) ==
  /\ pc[t] = "esl_get"
  /\ \E loaded \in BOOLEAN :
       LET ok == loaded /\ driver[self[t]] # None
       IN  /\ Issue(t, <<[cmd |-> "get", ok |-> ok]>>)
           /\ IF ok
              THEN /\ page' = [page EXCEPT ![driver[self[t]][1]] = Load(loc[t].episode_url)]
                   /\ Continue(t, Goto("esl_rows", stack[t]))
              ELSE /\ Continue(t, Throw("esl_get", stack[t]))
                   /\ UNCHANGED page
  /\ UNCHANGED <<app_vars, driver, is_logged_in, live, launched, jar, site, self, loc, headless, ghost_vars>>

\* lines 463-506
esl_rows(t) ==
  /\ pc[t] = "esl_rows"
  /\ \E found \in BOOLEAN :
       LET ok == found /\ driver[self[t]] # None
       IN  /\ Issue(t, <<[cmd |-> "find_elements", ok |-> ok]>>)
           /\ IF ok
              THEN Continue(t, Return(stack[t],
                     links_from(page[driver[self[t]][1]].link_rows, 1)))
              ELSE Continue(t, Throw("esl_rows", stack[t]))
  /\ UNCHANGED <<app_vars, driver, is_logged_in, browser_vars, site, self, loc, headless, ghost_vars>>

(***************************************************************************)
(* FilmanScraper.scrape_series, lines 512-573.  The log also records the    *)
(* calls of login_manual (line 528) and check_if_logged_in (line 537) of    *)
(* the relogin and the values they gave back.                               *)
(***************************************************************************)
\* lines 518-519
sc_enter(t) ==
  /\ pc[t] = "sc_enter"
  /\ IF driver[self[t]] = None
     THEN Continue(t, Enter("init_chrome", "sc_enter", "sc_login", stack[t]))
     ELSE Continue(t, Goto("sc_login", stack[t]))
  /\ UNCHANGED <<app_vars, driver, is_logged_in, browser_vars, site, self, loc, headless,
                 ghost_vars, log>>

\* line 521: not self.is_logged_in and not self.check_if_logged_in()
sc_login(t) ==
  /\ pc[t] = "sc_login"
  /\ IF is_logged_in[self[t]]
     THEN Continue(t, Goto("sc_search", stack[t]))
     ELSE Continue(t, Enter("cil_enter", "sc_login", "sc_checked", stack[t]))
  /\ UNCHANGED <<app_vars, driver, is_logged_in, browser_vars, site, self, loc, headless,
                 ghost_vars, log>>

\* lines 521-524 and 541-543
sc_checked(t) ==
  /\ pc[t] = "sc_checked"
  /\ IF rv[t].value = TRUE
     THEN /\ Continue(t, Goto("sc_search", stack[t]))
          /\ UNCHANGED log
     ELSE IF headless[self[t]] /\ loc[t].auto_relogin_headless
     THEN /\ Continue(t, Enter("close", "sc_checked", "sc_gui", stack[t]))
          /\ UNCHANGED log
     ELSE /\ Issue(t, <<[cmd |-> "manual_login", ok |-> TRUE]>>)
          /\ Continue(t, Enter("lm_enter", "sc_checked", "sc_manual", stack[t]))
  /\ UNCHANGED <<app_vars, driver, is_logged_in, browser_vars, site, self, loc, headless,
                 ghost_vars>>

\* lines 543-545 with a failed login sent back to the test of line 521
sc_manual_retrying(t) ==
  /\ pc[t] = "sc_manual"
  /\ IF rv[t].value = FALSE
     THEN Continue(t, Goto("sc_login", stack[t]))
     ELSE Continue(t, Goto("sc_search", stack[t]))
  /\ UNCHANGED <<app_vars, driver, is_logged_in, browser_vars, site, self, loc, headless,
                 ghost_vars, log>>

\* lines 543-545
sc_manual(t) ==
  /\ pc[t] = "sc_manual"
  /\ IF rv[t].value = FALSE
     THEN Continue(t, Return(stack[t], <<>>))
     ELSE Continue(t, Goto("sc_search", stack[t]))
  /\ UNCHANGED <<app_vars, driver, is_logged_in, browser_vars, site, self, loc, headless,
                 ghost_vars, log>>

\* lines 526-527
sc_gui(t) ==
  /\ pc[t] = "sc_gui"
  /\ loc' = [loc EXCEPT ![t].original_headless = headless[self[t]]]
  /\ headless' = [headless EXCEPT ![self[t]] = FALSE]
  /\ Continue(t, Enter("init_chrome", "sc_gui", "sc_gui_login", stack[t]))
  /\ UNCHANGED <<app_vars, driver, is_logged_in, browser_vars, site, self, ghost_vars, log>>

\* line 528
sc_gui_login(t) ==
  /\ pc[t] = "sc_gui_login"
  /\ Issue(t, <<[cmd |-> "manual_login", ok |-> TRUE]>>)
  /\ Continue(t, Enter("lm_enter", "sc_gui_login", "sc_gui_logged", stack[t]))
  /\ UNCHANGED <<app_vars, driver, is_logged_in, browser_vars, site, self, loc, headless,
                 ghost_vars>>

\* lines 528-533
sc_gui_logged(t) ==
  /\ pc[t] = "sc_gui_logged"
  /\ Issue(t, <<[cmd |-> "manual_logged", ok |-> TRUE, value |-> rv[t].value]>>)
  /\ IF rv[t].value = FALSE
     THEN Continue(t, Return(stack[t], <<>>))
     ELSE Continue(t, Enter("close", "sc_gui_logged", "sc_headless", stack[t]))
  /\ UNCHANGED <<app_vars, driver, is_logged_in, browser_vars, site, self, loc, headless,
                 ghost_vars>>

\* lines 534-535
sc_headless(t) ==
  /\ pc[t] = "sc_headless"
  /\ headless' = [headless EXCEPT ![self[t]] = loc[t].original_headless]
  /\ Continue(t, Enter("init_chrome", "sc_headless", "sc_final", stack[t]))
  /\ UNCHANGED <<app_vars, driver, is_logged_in, browser_vars, site, self, loc, ghost_vars, log>>

\* line 537
sc_final(t) ==
  /\ pc[t] = "sc_final"
  /\ Issue(t, <<[cmd |-> "final_check", ok |-> TRUE]>>)
  /\ Continue(t, Enter("cil_enter", "sc_final", "sc_final_checked", stack[t]))
  /\ UNCHANGED <<app_vars, driver, is_logged_in, browser_vars, site, self, loc, headless,
                 ghost_vars>>

\* line 537 with the answer of the check taken for True
session_assumed(checked) == TRUE

\* line 537: the answer of check_if_logged_in in the new headless browser
session_persisted(checked) == checked

\* lines 537-540
sc_final_checked(t) ==
  /\ pc[t] = "sc_final_checked"
  /\ Issue(t, <<[cmd |-> "final_checked", ok |-> TRUE, value |-> rv[t].value]>>)
  /\ IF ~session_persisted(rv[t].value)
     THEN Continue(t, Return(stack[t], <<>>))
     ELSE Continue(t, Goto("sc_search", stack[t]))
  /\ UNCHANGED <<app_vars, driver, is_logged_in, browser_vars, site, self, loc, headless,
                 ghost_vars>>

\* line 546
sc_search(t) ==
  /\ pc[t] = "sc_search"
  /\ Continue(t, Enter("ss_enter", "sc_search", "sc_searched", stack[t]))
  /\ UNCHANGED <<app_vars, driver, is_logged_in, browser_vars, site, self, loc, headless,
                 ghost_vars, log>>

\* lines 546-549
sc_searched(t) ==
  /\ pc[t] = "sc_searched"
  /\ IF rv[t].value = FALSE
     THEN Continue(t, Return(stack[t], <<>>))
     ELSE Continue(t, Enter("gsr_find", "sc_searched", "sc_select", stack[t]))
  /\ UNCHANGED <<app_vars, driver, is_logged_in, browser_vars, site, self, loc, headless,
                 ghost_vars, log>>

\* lines 550-556: the results are printed, then the selection is made
sc_select(t) ==
  /\ pc[t] = "sc_select"
  /\ loc' = [loc EXCEPT ![t].results = rv[t].value]
  /\ Continue(t, Enter("sel_click", "sc_select", "sc_selected", stack[t]))
  /\ UNCHANGED <<app_vars, driver, is_logged_in, browser_vars, site, self, headless,
                 ghost_vars, log>>

\* lines 556-559
sc_selected(t) ==
  /\ pc[t] = "sc_selected"
  /\ IF rv[t].value = FALSE
     THEN Continue(t, Return(stack[t], <<>>))
     ELSE Continue(t, Enter("ee_find", "sc_selected", "sc_episodes", stack[t]))
  /\ UNCHANGED <<app_vars, driver, is_logged_in, browser_vars, site, self, loc, headless,
                 ghost_vars, log>>

\* the episode dict with its 'streaming_links' set
with_streaming_links(episode, links) ==
  [k \in DOMAIN episode \cup {"streaming_links"} |->
     IF k = "streaming_links" THEN links ELSE episode[k]]

\* lines 561-568, from episode i of loc[t].episodes on: the links of an
\* episode are fetched by extract_streaming_links, which gives [] for a url
\* of None (driver.get raises, lines 507-510)
sc_links_from(t, episodes, i) ==
  IF i > Len(episodes)
  THEN /\ Continue(t, Return(stack[t], episodes))
       /\ UNCHANGED loc
  ELSE /\ loc' = [loc EXCEPT ![t].episodes = episodes, ![t].i = i,
                             ![t].episode_url = IF episodes[i].url = None THEN ""
                                                ELSE episodes[i].url[1]]
       /\ Continue(t, Enter("esl_get", "sc_episodes", "sc_linked", stack[t]))

\* lines 559-568
sc_episodes(t) ==
  /\ pc[t] = "sc_episodes"
  /\ IF loc[t].include_streaming_links /\ rv[t].value # <<>>
     THEN sc_links_from(t, rv[t].value, 1)
     ELSE /\ Continue(t, Return(stack[t], rv[t].value))
          /\ UNCHANGED loc
  /\ UNCHANGED <<app_vars, driver, is_logged_in, browser_vars, site, self, headless,
                 ghost_vars, log>>

\* line 565: the links of episode i are stored, then the next episode
sc_linked(t) ==
  /\ pc[t] = "sc_linked"
  /\ sc_links_from(t, [loc[t].episodes EXCEPT ![loc[t].i] = with_streaming_links(@, rv[t].value)],
                   loc[t].i + 1)
  /\ UNCHANGED <<app_vars, driver, is_logged_in, browser_vars, site, self, headless,
                 ghost_vars, log>>

(***************************************************************************)
(* get_scraper, app.py lines 53-80                                          *)
(***************************************************************************)
\* the fields of the objects still referred to; an object nobody refers to
\* is gone, and its id stands for a new object
Kept(refs, field, initial) == [i \in Objects |-> IF i \in refs THEN field[i] ELSE initial]
OthersRefs(t) == {self[u] : u \in Threads \ {t}}

\* an object id no other thread refers to, for FilmanScraper(...) of line 63
NewObject(t) == CHOOSE i \in Objects :
  /\ \A u \in Threads \ {t} : self[u] # i
  /\ \A j \in Objects : j < i => \E u \in Threads \ {t} : self[u] = j

\* lines 57-75 without the with statement of line 56: the instance is looked
\* at whether or not another thread is creating one
gs_check_unlocked(t) ==
  /\ pc[t] = "gs_check"
  /\ scraper_lock' = Some(t)
  /\ IF scraper_instance = None \/ driver[scraper_instance[1]] = None
     THEN /\ scraper_instance' = Some(NewObject(t))
          /\ driver' = Kept(OthersRefs(t), driver, None)
          /\ is_logged_in' = Kept(OthersRefs(t), is_logged_in, FALSE)
          /\ headless' = [headless EXCEPT ![NewObject(t)] = HEADLESS_MODE]
          /\ self' = [self EXCEPT ![t] = NewObject(t)]
          /\ IF session_cookies # None /\ session_cookies[1] # <<>>
             THEN /\ loc' = [loc EXCEPT ![t].cookies = session_cookies[1], ![t].shared = TRUE]
                  /\ Continue(t, Enter("inj_enter", "gs_inject", "gs_cil", stack[t]))
             ELSE /\ Continue(t, Goto("gs_cil", stack[t]))
                  /\ UNCHANGED loc
     ELSE /\ self' = [self EXCEPT ![t] = scraper_instance[1]]
          /\ Continue(t, Goto("gs_return", stack[t]))
          /\ UNCHANGED <<scraper_instance, driver, is_logged_in, headless, loc>>
  /\ UNCHANGED <<session_cookies, cookies_file, browser_vars, site, ghost_vars, log>>

\* lines 56-75 without lines 68-73: a new scraper is not given the stored
\* cookies
gs_check_without_cookies(t) ==
  /\ pc[t] = "gs_check"
  /\ scraper_lock = None
  /\ scraper_lock' = Some(t)
  /\ IF scraper_instance = None \/ driver[scraper_instance[1]] = None
     THEN /\ scraper_instance' = Some(NewObject(t))
          /\ driver' = Kept(OthersRefs(t), driver, None)
          /\ is_logged_in' = Kept(OthersRefs(t), is_logged_in, FALSE)
          /\ headless' = [headless EXCEPT ![NewObject(t)] = HEADLESS_MODE]
          /\ self' = [self EXCEPT ![t] = NewObject(t)]
          /\ Continue(t, Goto("gs_cil", stack[t]))
     ELSE /\ self' = [self EXCEPT ![t] = scraper_instance[1]]
          /\ Continue(t, Goto("gs_return", stack[t]))
          /\ UNCHANGED <<scraper_instance, driver, is_logged_in, headless>>
  /\ UNCHANGED <<session_cookies, cookies_file, browser_vars, site, ghost_vars, log, loc>>

\* lines 56-75: the lock is taken, then the instance looked at
gs_check(t) ==
  /\ pc[t] = "gs_check"
  /\ scraper_lock = None
  /\ scraper_lock' = Some(t)
  /\ IF scraper_instance = None \/ driver[scraper_instance[1]] = None
     THEN /\ scraper_instance' = Some(NewObject(t))
          /\ driver' = Kept(OthersRefs(t), driver, None)
          /\ is_logged_in' = Kept(OthersRefs(t), is_logged_in, FALSE)
          /\ headless' = [headless EXCEPT ![NewObject(t)] = HEADLESS_MODE]
          /\ self' = [self EXCEPT ![t] = NewObject(t)]
          /\ IF session_cookies # None /\ session_cookies[1] # <<>>
             THEN /\ loc' = [loc EXCEPT ![t].cookies = session_cookies[1], ![t].shared = TRUE]
                  /\ Continue(t, Enter("inj_enter", "gs_inject", "gs_cil", stack[t]))
             ELSE /\ Continue(t, Goto("gs_cil", stack[t]))
                  /\ UNCHANGED loc
     ELSE /\ self' = [self EXCEPT ![t] = scraper_instance[1]]
          /\ Continue(t, Goto("gs_return", stack[t]))
          /\ UNCHANGED <<scraper_instance, driver, is_logged_in, headless, loc>>
  /\ UNCHANGED <<session_cookies, cookies_file, browser_vars, site, ghost_vars, log>>

\* line 77
gs_cil(t) ==
  /\ pc[t] = "gs_cil"
  /\ Continue(t, Enter("cil_enter", "gs_cil", "gs_return", stack[t]))
  /\ loc' = [loc EXCEPT ![t] = IF @.shared THEN NoLocals ELSE @]
  /\ UNCHANGED <<app_vars, driver, is_logged_in, browser_vars, site, self, headless, ghost_vars, log>>

\* line 79, leaving the with block of line 56
gs_return(t) ==
  /\ pc[t] = "gs_return"
  /\ scraper_lock' = None
  /\ Continue(t, Return(stack[t], scraper_instance))
  /\ UNCHANGED <<scraper_instance, session_cookies, cookies_file, driver, is_logged_in,
                 browser_vars, site, self, loc, headless, ghost_vars, log>>

(***************************************************************************)
(* A sequential client: it takes the scraper from get_scraper and calls its *)
(* methods one after another.                                               *)
(***************************************************************************)
Cookie(name, value, domain) == [name |-> name, value |-> value, domain |-> domain]
SessionCookie == Cookie(Some(SESSION_COOKIE), Some("example123"), None)
ExpiredCookie == Cookie(Some(SESSION_COOKIE), Some("expired"), None)
ClientCookieLists == {<<SessionCookie>>, <<ExpiredCookie>>}

NoArgs == [none |-> TRUE]
Unchanged_by_Begin ==
  <<app_vars, driver, is_logged_in, headless, browser_vars, site, self>>

call_get_scraper(t) ==
  /\ Begin(t, "get_scraper", NoArgs, "gs_check", <<>>)
  /\ UNCHANGED <<Unchanged_by_Begin, loc>>

call_check_if_logged_in(t) ==
  /\ self[t] # 0
  /\ Begin(t, "check_if_logged_in", NoArgs, "cil_enter", <<>>)
  /\ UNCHANGED <<Unchanged_by_Begin, loc>>

call_inject_cookies(t, lists) ==
  /\ self[t] # 0
  /\ \E cookies \in lists \cup {loc[t].cookies} :
       /\ Begin(t, "inject_cookies", [cookies |-> cookies], "inj_enter", <<>>)
       /\ loc' = [loc EXCEPT ![t].cookies = cookies, ![t].shared = FALSE]
  /\ UNCHANGED Unchanged_by_Begin

call_search_series(t) ==
  /\ self[t] # 0
  /\ Begin(t, "search_series", NoArgs, "ss_enter", <<>>)
  /\ UNCHANGED <<Unchanged_by_Begin, loc>>

call_login_manual(t) ==
  /\ self[t] # 0
  /\ Begin(t, "login_manual", NoArgs, "lm_enter", <<>>)
  /\ UNCHANGED <<Unchanged_by_Begin, loc>>

\* scrape_series(series_name, content_type, result_index, include_streaming_links,
\* auto_relogin_headless)
call_scrape_series(t, content_types, indices) ==
  /\ self[t] # 0
  /\ \E content_type \in content_types, index \in indices,
        include_streaming_links \in BOOLEAN, auto_relogin_headless \in BOOLEAN :
       /\ Begin(t, "scrape_series",
                [content_type |-> content_type, result_index |-> index,
                 include_streaming_links |-> include_streaming_links,
                 auto_relogin_headless |-> auto_relogin_headless], "sc_enter", <<>>)
       /\ loc' = [loc EXCEPT ![t] = [NoLocals EXCEPT
                    !.content_type = Some(content_type), !.index = index,
                    !.include_streaming_links = include_streaming_links,
                    !.auto_relogin_headless = auto_relogin_headless]]
  /\ UNCHANGED Unchanged_by_Begin

call_close(t) ==
  /\ self[t] # 0
  /\ Begin(t, "close", NoArgs, "close", <<>>)
  /\ UNCHANGED <<Unchanged_by_Begin, loc>>

call_get_search_results(t, content_types) ==
  /\ self[t] # 0
  /\ \E content_type \in content_types :
       /\ Begin(t, "get_search_results", [content_type |-> content_type], "gsr_find", <<>>)
       /\ loc' = [loc EXCEPT ![t].content_type = content_type]
  /\ UNCHANGED Unchanged_by_Begin

call_select_result_by_index(t, indices, content_types) ==
  /\ self[t] # 0
  /\ \E index \in indices, content_type \in content_types :
       /\ Begin(t, "select_result_by_index",
                [index |-> index, content_type |-> content_type], "sel_click", <<>>)
       /\ loc' = [loc EXCEPT ![t].index = index, ![t].content_type = content_type]
  /\ UNCHANGED Unchanged_by_Begin

call_extract_episodes(t) ==
  /\ self[t] # 0
  /\ Begin(t, "extract_episodes", NoArgs, "ee_find", <<>>)
  /\ UNCHANGED <<Unchanged_by_Begin, loc>>

call_extract_streaming_links(t, urls) ==
  /\ self[t] # 0
  /\ \E episode_url \in urls :
       /\ Begin(t, "extract_streaming_links", [episode_url |-> episode_url], "esl_get", <<>>)
       /\ loc' = [loc EXCEPT ![t].episode_url = episode_url]
  /\ UNCHANGED Unchanged_by_Begin

Client == {1}

NoCall == [op |-> "none", args |-> NoArgs, page |-> BlankPage]
SavedJars == {{}, {stored(Cookie(Some(SESSION_COOKIE), Some("example123"), Some(DEFAULT_DOMAIN)))}}

\* the process has started: no scraper yet, the profile as earlier runs left it
InitThreads(threads, object) ==
  /\ pc = [t \in threads |-> "idle"]
  /\ stack = [t \in threads |-> <<>>]
  /\ self = [t \in threads |-> object]
  /\ loc = [t \in threads |-> NoLocals]
  /\ rv = [t \in threads |-> Returned(None)]
  /\ call = [t \in threads |-> NoCall]

InitProcess ==
  /\ scraper_instance = None
  /\ scraper_lock = None
  /\ session_cookies = None
  /\ cookies_file = None
  /\ driver = [i \in Objects |-> None]
  /\ is_logged_in = [i \in Objects |-> FALSE]
  /\ headless = [i \in Objects |-> HEADLESS_MODE]
  /\ live = {}
  /\ launched = 0
  /\ page = [b \in Browsers |-> BlankPage]
  /\ jar \in SavedJars

Init ==
  /\ InitProcess
  /\ site \in {[NoElements EXCEPT !.search_input = found] : found \in BOOLEAN}
  /\ InitThreads(Client, 0)
  /\ prev = <<>>
  /\ log = [t \in Client |-> <<>>]

Next ==
  \E t \in Client :
    \/ call_get_scraper(t) \/ gs_check(t) \/ gs_cil(t) \/ gs_return(t)
    \/ call_check_if_logged_in(t) \/ cil_enter(t) \/ cil_get(t) \/ cil_find(t)
    \/ call_inject_cookies(t, ClientCookieLists) \/ inj_enter(t) \/ inj_get(t)
    \/ inj_add(t) \/ inj_refresh(t)
    \/ call_search_series(t) \/ ss_enter(t) \/ ss_get(t) \/ ss_input(t)
    \/ call_close(t) \/ close(t)
    \/ init_chrome(t) \/ init_script(t)

Spec == Init /\ [][Next]_vars

(***************************************************************************)
(* The Flask handlers of app.py; each request runs on a thread of its own.  *)
(***************************************************************************)
\* the handler returns: the response goes out and its locals are gone
Respond(t, status, body) ==
  /\ Continue(t, [pc |-> "responded", stack |-> <<>>,
                  rv |-> Returned([status |-> status, body |-> body])])
  /\ self' = [self EXCEPT ![t] = 0]
  /\ loc' = [loc EXCEPT ![t] = NoLocals]
  /\ driver' = Kept(OthersRefs(t) \cup {scraper_instance[i] : i \in DOMAIN scraper_instance},
                    driver, None)
  /\ is_logged_in' = Kept(OthersRefs(t) \cup {scraper_instance[i] : i \in DOMAIN scraper_instance},
                          is_logged_in, FALSE)

\* the thread is free for the next request
next_request(t) ==
  /\ pc[t] = "responded"
  /\ Continue(t, Goto("idle", <<>>))
  /\ call' = [call EXCEPT ![t] = NoCall]
  /\ UNCHANGED <<app_vars, driver, is_logged_in, headless, browser_vars, site, self, loc,
                 prev, log>>

\* ---- health_check, lines 92-110 ----
\* a request arrives; line 96
call_health_check(t) ==
  /\ Begin(t, "health_check", NoArgs, "gs_check",
           <<[site |-> "hc_scraper", ret |-> "hc_check"]>>)
  /\ UNCHANGED <<Unchanged_by_Begin, loc>>

\* line 97
hc_check(t) ==
  /\ pc[t] = "hc_check"
  /\ self' = [self EXCEPT ![t] = rv[t].value[1]]
  /\ Continue(t, Enter("cil_enter", "hc_check", "hc_respond", stack[t]))
  /\ UNCHANGED <<app_vars, driver, is_logged_in, browser_vars, site, loc, headless, ghost_vars, log>>

\* lines 99-104
hc_respond(t) ==
  /\ pc[t] = "hc_respond"
  /\ Respond(t, 200, [status |-> "ok", logged_in |-> rv[t].value,
                      has_cookies |-> session_cookies # None])
  /\ UNCHANGED <<app_vars, browser_vars, site, headless, ghost_vars, log>>

\* ---- keep_alive, lines 112-128 ----
\* a request arrives; line 116
call_keep_alive(t) ==
  /\ Begin(t, "keep_alive", NoArgs, "gs_check",
           <<[site |-> "ka_scraper", ret |-> "ka_check"]>>)
  /\ UNCHANGED <<Unchanged_by_Begin, loc>>

\* line 118, and line 126 when there is no driver
ka_check(t) ==
  /\ pc[t] = "ka_check"
  /\ IF driver[rv[t].value[1]] # None
     THEN /\ self' = [self EXCEPT ![t] = rv[t].value[1]]
          /\ Continue(t, Goto("ka_get", stack[t]))
          /\ UNCHANGED <<loc, driver, is_logged_in>>
     ELSE Respond(t, 200, [status |-> "alive", message |-> "No active scraper"])
  /\ UNCHANGED <<app_vars, browser_vars, site, headless, ghost_vars, log>>

\* lines 119-120, and lines 127-128 when the navigation raises
ka_get(t) ==
  /\ pc[t] = "ka_get"
  /\ \E loaded \in BOOLEAN :
       LET ok == loaded /\ driver[self[t]] # None
       IN  /\ Issue(t, <<[cmd |-> "get", ok |-> ok]>>)
           /\ IF ok
              THEN /\ page' = [page EXCEPT ![driver[self[t]][1]] = Load(BASE_URL)]
                   /\ Continue(t, Enter("cil_enter", "ka_get", "ka_respond", stack[t]))
                   /\ UNCHANGED <<self, loc, driver, is_logged_in>>
              ELSE /\ Respond(t, 200, [status |-> "alive", error |-> TRUE])
                   /\ UNCHANGED page
  /\ UNCHANGED <<app_vars, live, launched, jar, site, headless, ghost_vars>>

\* lines 121-125
ka_respond(t) ==
  /\ pc[t] = "ka_respond"
  /\ Respond(t, 200, [status |-> "alive", logged_in |-> rv[t].value])
  /\ UNCHANGED <<app_vars, browser_vars, site, headless, ghost_vars, log>>

\* ---- update_session, lines 130-217 ----
\* request bodies (request.get_json()): None, or an object with these keys
CookieStringBody(text) == [keys |-> {"cookie_string"}, cookie_string |-> text]
CookiesBody(cookies) == [keys |-> {"cookies"}, cookies |-> cookies]
OtherBody == [keys |-> {"session"}]
Bodies == {NoBody, OtherBody, CookieStringBody("session_id=example123"),
           CookiesBody(<<SessionCookie>>)}

\* a request arrives; line 146
call_update_session(t) ==
  /\ \E data \in Bodies :
       /\ Begin(t, "update_session", NoArgs, "us_parse", <<>>)
       /\ loc' = [loc EXCEPT ![t].data = data]
  /\ UNCHANGED Unchanged_by_Begin

\* a request with one of the given bodies arrives; line 146
call_update_session_with(t, bodies) ==
  /\ \E data \in bodies :
       /\ Begin(t, "update_session", data, "us_parse", <<>>)
       /\ loc' = [loc EXCEPT ![t].data = data]
  /\ UNCHANGED Unchanged_by_Begin


\* lines 146-181 with every body taken for a good one
us_parse_accepting(t) ==
  /\ pc[t] = "us_parse"
  /\ Respond(t, 200, [success |-> TRUE])
  /\ UNCHANGED <<scraper_instance, scraper_lock, session_cookies, cookies_file, browser_vars,
                 site, headless, ghost_vars, log>>

\* lines 148-178
us_parse(t) ==
  /\ pc[t] = "us_parse"
  /\ LET data == loc[t].data
     IN  CASE "rejected" \in DOMAIN data
                -> /\ Continue(t, Throw("us_parse", stack[t]))
                   /\ UNCHANGED <<session_cookies, self, loc, driver, is_logged_in>>
           [] "rejected" \notin DOMAIN data /\ data.keys = {}
                -> /\ Respond(t, 400, [success |-> FALSE, error |-> "No JSON data provided"])
                   /\ UNCHANGED session_cookies
           [] "cookie_string" \in data.keys
                -> /\ session_cookies' = Some(parse_cookie_string(data.cookie_string))
                   /\ Continue(t, Goto("us_save", stack[t]))
                   /\ loc' = [loc EXCEPT ![t] = NoLocals]
                   /\ UNCHANGED <<self, driver, is_logged_in>>
           [] "cookie_string" \notin data.keys /\ "cookies" \in data.keys
                -> /\ session_cookies' = Some(data.cookies)
                   /\ Continue(t, Goto("us_save", stack[t]))
                   /\ loc' = [loc EXCEPT ![t] = NoLocals]
                   /\ UNCHANGED <<self, driver, is_logged_in>>
           [] OTHER
                -> /\ Respond(t, 400, [success |-> FALSE, error |-> "Missing cookies"])
                   /\ UNCHANGED session_cookies
  /\ UNCHANGED <<scraper_instance, scraper_lock, cookies_file, browser_vars, site,
                 headless, ghost_vars, log>>

\* line 181, save_cookies_to_file lines 43-51
us_save(t) ==
  /\ pc[t] = "us_save"
  /\ \E written \in BOOLEAN :
       cookies_file' = IF written THEN session_cookies ELSE cookies_file
  /\ Continue(t, Goto("us_check", stack[t]))
  /\ UNCHANGED <<scraper_instance, scraper_lock, session_cookies, driver, is_logged_in,
                 browser_vars, site, self, loc, headless, ghost_vars, log>>

\* lines 186-189 and 204-210 without the with statement of line 185
us_check_unlocked(t) ==
  /\ pc[t] = "us_check"
  /\ IF scraper_instance # None /\ driver[scraper_instance[1]] # None
     THEN /\ self' = [self EXCEPT ![t] = scraper_instance[1]]
          /\ loc' = [loc EXCEPT ![t].cookies = session_cookies[1], ![t].shared = TRUE]
          /\ Continue(t, Enter("inj_enter", "us_inject", "us_cil", stack[t]))
          /\ scraper_lock' = Some(t)
          /\ UNCHANGED <<driver, is_logged_in>>
     ELSE /\ UNCHANGED scraper_lock
          /\ Respond(t, 200, [success |-> TRUE, stored |-> TRUE,
                              cookies_count |-> Len(session_cookies[1])])
  /\ UNCHANGED <<scraper_instance, session_cookies, cookies_file, browser_vars, site,
                 headless, ghost_vars, log>>

\* lines 185-189, and lines 204-210 when there is no scraper with a driver
us_check(t) ==
  /\ pc[t] = "us_check"
  /\ scraper_lock = None
  /\ IF scraper_instance # None /\ driver[scraper_instance[1]] # None
     THEN /\ self' = [self EXCEPT ![t] = scraper_instance[1]]
          /\ loc' = [loc EXCEPT ![t].cookies = session_cookies[1], ![t].shared = TRUE]
          /\ Continue(t, Enter("inj_enter", "us_inject", "us_cil", stack[t]))
          /\ scraper_lock' = Some(t)
          /\ UNCHANGED <<driver, is_logged_in>>
     ELSE /\ UNCHANGED scraper_lock
          /\ Respond(t, 200, [success |-> TRUE, stored |-> TRUE,
                              cookies_count |-> Len(session_cookies[1])])
  /\ UNCHANGED <<scraper_instance, session_cookies, cookies_file, browser_vars, site,
                 headless, ghost_vars, log>>

\* line 190
us_cil(t) ==
  /\ pc[t] = "us_cil"
  /\ Continue(t, Enter("cil_enter", "us_cil", "us_respond", stack[t]))
  /\ loc' = [loc EXCEPT ![t] = NoLocals]
  /\ UNCHANGED <<app_vars, driver, is_logged_in, browser_vars, site, self, headless, ghost_vars, log>>

\* lines 192-197
us_respond(t) ==
  /\ pc[t] = "us_respond"
  /\ scraper_lock' = None
  /\ Respond(t, 200, [success |-> TRUE, logged_in |-> rv[t].value,
                      cookies_count |-> Len(session_cookies[1])])
  /\ UNCHANGED <<scraper_instance, session_cookies, cookies_file, browser_vars, site,
                 headless, ghost_vars, log>>

\* lines 212-217: get_json() raised
us_error(t) ==
  /\ pc[t] = "us_error"
  /\ Respond(t, 500, [success |-> FALSE, error |-> "Bad request"])
  /\ UNCHANGED <<scraper_instance, scraper_lock, session_cookies, cookies_file, browser_vars,
                 site, headless, ghost_vars, log>>

\* lines 198-203
us_failed(t) ==
  /\ pc[t] = "us_failed"
  /\ scraper_lock' = None
  /\ Respond(t, 500, [success |-> FALSE, error |-> "Failed to inject cookies"])
  /\ UNCHANGED <<scraper_instance, session_cookies, cookies_file, browser_vars, site,
                 headless, ghost_vars, log>>

Requests == {1, 2}

InitRequests ==
  /\ InitProcess
  /\ site = NoElements
  /\ InitThreads(Requests, 0)
  /\ prev = <<>>
  /\ log = <<>>

NextRequests ==
  \E t \in Requests :
    \/ call_health_check(t) \/ hc_check(t) \/ hc_respond(t)
    \/ call_keep_alive(t) \/ ka_check(t) \/ ka_get(t) \/ ka_respond(t)
    \/ call_update_session(t) \/ us_parse(t) \/ us_save(t) \/ us_check(t)
    \/ us_cil(t) \/ us_respond(t) \/ us_failed(t) \/ next_request(t)
    \/ gs_check(t) \/ gs_cil(t) \/ gs_return(t)
    \/ cil_enter(t) \/ cil_get(t) \/ cil_find(t)
    \/ inj_enter(t) \/ inj_get(t) \/ inj_add(t) \/ inj_refresh(t)
    \/ init_chrome(t) \/ init_script(t)

SpecApp == InitRequests /\ [][NextRequests]_vars

(***************************************************************************)
(* A client that holds a scraper whose browser is up, on a page of the      *)
(* site, and calls the methods that read the page.                          *)
(***************************************************************************)
SeqsUpTo(S, n) == UNION {[1..k -> S] : k \in 0..n}

NoHistory == [call |-> NoCall, rv |-> Returned(None), jar |-> {}, cookies |-> <<>>]

InitScraper(elements, url, cookie_jar) ==
  /\ scraper_instance = None
  /\ scraper_lock = None
  /\ session_cookies = None
  /\ cookies_file = None
  /\ driver = [i \in Objects |-> IF i = 1 THEN Some(1) ELSE None]
  /\ is_logged_in = [i \in Objects |-> FALSE]
  /\ headless = [i \in Objects |-> HEADLESS_MODE]
  /\ live = {1}
  /\ launched = 1
  /\ jar = cookie_jar
  /\ site = elements
  /\ page = [b \in Browsers |->
               IF b = 1 THEN Document(url, elements, logged_in_marker(cookie_jar))
               ELSE BlankPage]
  /\ InitThreads(Client, 1)
  /\ log = [t \in Client |-> <<>>]

\* ---- search result pages ----
Link(url) == <<[href |-> Some(url)]>>
Tile(link, title, year) == [link |-> link, title |-> title, year |-> year]
Tiles ==
  {Tile(Link("https://filman.cc/s/a"), <<"A">>, <<"2020">>),
   Tile(Link("https://filman.cc/m/b"), <<" B ">>, NoElem),
   Tile(Link("https://filman.cc/s/c"), NoElem, NoElem),
   Tile(NoElem, <<"D">>, NoElem),
   Tile(Link("https://filman.cc/x/e"), <<"E">>, <<"1999">>),
   Tile(<<[href |-> None]>>, <<"F">>, NoElem)}
ContentTypes == {None, Some("serial"), Some("film")}
Indices == -1..MaxTiles

InitResults ==
  /\ \E posters \in SeqsUpTo(Tiles, MaxTiles) :
       InitScraper([NoElements EXCEPT !.posters = posters], SEARCH_URL, {})
  /\ prev = <<>>

NextResults ==
  \E t \in Client :
    \/ call_get_search_results(t, ContentTypes) \/ gsr_find(t)
    \/ call_select_result_by_index(t, Indices, ContentTypes) \/ sel_click(t)

SpecResults == InitResults /\ [][NextResults]_vars

(***************************************************************************)
(* A client that holds a scraper without a browser and logs in by hand.     *)
(***************************************************************************)
InitLogin ==
  /\ InitProcess
  /\ site = NoElements
  /\ InitThreads(Client, 1)
  /\ prev = <<>>
  /\ log = [t \in Client |-> <<>>]

NextLogin ==
  \E t \in Client :
    \/ call_login_manual(t) \/ lm_enter(t) \/ lm_get(t) \/ lm_fill(t) \/ lm_wait_form(t)
    \/ lm_wait_marker(t) \/ lm_fallback(t) \/ lm_checked(t)
    \/ cil_enter(t) \/ cil_get(t) \/ cil_find(t)
    \/ call_close(t) \/ close(t)
    \/ init_chrome(t) \/ init_script(t)

SpecLogin == InitLogin /\ [][NextLogin]_vars

(***************************************************************************)
(* scrape_search, app.py lines 234-335: POST /api/scrape/search             *)
(***************************************************************************)
\* request bodies: no JSON object, a body get_json() rejects, or an object
\* with some of the keys title, type, year
BadBody == [keys |-> {}, rejected |-> TRUE]
SearchBody(keys, type, year) ==
  [keys |-> keys, title |-> "Breaking Bad", type |-> type, year |-> year]
IntYear(n) == Some([t |-> "int", n |-> n])
TextYear(s) == Some([t |-> "string", s |-> s])
Years == {IntYear(2008), TextYear("2008"), IntYear(2020), IntYear(1999), IntYear(0),
          TextYear("")}
SearchBodies ==
  {NoBody, BadBody, SearchBody({"year"}, "serial", IntYear(2008))}
    \cup {SearchBody({"title"}, "serial", None), SearchBody({"title", "type"}, "film", None)}
    \cup {SearchBody({"title", "year"}, "serial", year) : year \in Years}
    \cup {SearchBody({"title", "type", "year"}, "film", year) : year \in Years}

\* a request arrives; line 244
call_scrape_search(t) ==
  /\ \E data \in SearchBodies :
       /\ Begin(t, "scrape_search", data, "sq_parse", <<>>)
       /\ loc' = [loc EXCEPT ![t].data = data]
  /\ UNCHANGED Unchanged_by_Begin

\* lines 244-259
sq_parse(t) ==
  /\ pc[t] = "sq_parse"
  /\ LET data == loc[t].data
     IN  IF data = BadBody
         THEN /\ Continue(t, Throw("sq_parse", stack[t]))
              /\ UNCHANGED <<self, loc, driver, is_logged_in>>
         ELSE IF "title" \notin data.keys
         THEN Respond(t, 400, [success |-> FALSE, error |-> "Missing title in request body"])
         ELSE /\ loc' = [loc EXCEPT ![t].content_type =
                           Some(IF "type" \in data.keys THEN data.type ELSE "serial")]
              /\ Continue(t, Enter("gs_check", "sq_scraper", "sq_search", stack[t]))
              /\ UNCHANGED <<self, driver, is_logged_in>>
  /\ UNCHANGED <<app_vars, browser_vars, site, headless, ghost_vars, log>>

\* line 262
sq_search(t) ==
  /\ pc[t] = "sq_search"
  /\ self' = [self EXCEPT ![t] = rv[t].value[1]]
  /\ Continue(t, Enter("ss_enter", "sq_search", "sq_searched", stack[t]))
  /\ UNCHANGED <<app_vars, driver, is_logged_in, browser_vars, site, loc, headless, ghost_vars, log>>

\* lines 262-264 and 275
sq_searched(t) ==
  /\ pc[t] = "sq_searched"
  /\ IF rv[t].value = FALSE
     THEN Respond(t, 404, [success |-> FALSE, error |-> "Series not found"])
     ELSE /\ Continue(t, Enter("gsr_find", "sq_results", "sq_results", stack[t]))
          /\ UNCHANGED <<self, loc, driver, is_logged_in>>
  /\ UNCHANGED <<app_vars, browser_vars, site, headless, ghost_vars, log>>

\* lines 277-308
sq_results(t) ==
  /\ pc[t] = "sq_results"
  /\ LET search_results == rv[t].value
         year == IF "year" \in loc[t].data.keys THEN loc[t].data.year ELSE None
     IN  IF search_results = <<>>
         THEN Respond(t, 404, [success |-> FALSE, error |-> "No results found"])
         ELSE /\ loc' = [loc EXCEPT ![t].index = result_index(search_results, year),
                                    ![t].results = search_results]
              /\ Continue(t, Enter("sel_click", "sq_select", "sq_selected", stack[t]))
              /\ UNCHANGED <<self, driver, is_logged_in>>
  /\ UNCHANGED <<app_vars, browser_vars, site, headless, ghost_vars, log>>

\* lines 308-314
sq_selected(t) ==
  /\ pc[t] = "sq_selected"
  /\ IF rv[t].value = FALSE
     THEN Respond(t, 500, [success |-> FALSE, error |-> "Cannot open results page"])
     ELSE /\ Continue(t, Enter("ee_find", "sq_episodes", "sq_respond", stack[t]))
          /\ UNCHANGED <<self, loc, driver, is_logged_in>>
  /\ UNCHANGED <<app_vars, browser_vars, site, headless, ghost_vars, log>>

\* lines 314-326
sq_respond(t) ==
  /\ pc[t] = "sq_respond"
  /\ LET selected_result == loc[t].results[loc[t].index + 1]
         episodes == rv[t].value
     IN  Respond(t, 200, [success |-> TRUE, title |-> selected_result.title,
                          type |-> selected_result.type, year |-> selected_result.year,
                          url |-> selected_result.url, episodes |-> episodes,
                          count |-> Len(episodes)])
  /\ UNCHANGED <<app_vars, browser_vars, site, headless, ghost_vars, log>>

\* lines 329-334
sq_error(t) ==
  /\ pc[t] = "sq_error"
  /\ Respond(t, 500, [success |-> FALSE, error |-> "exception"])
  /\ UNCHANGED <<app_vars, browser_vars, site, headless, ghost_vars, log>>

(***************************************************************************)
(* scrape_links, app.py lines 337-411: POST /api/scrape/links               *)
(***************************************************************************)
\* an element of 'episodes': url and episode are None when the key is absent
RequestedEpisode(episode, url) == [episode |-> episode, url |-> url]
LinksBody(episodes) == [keys |-> {"episodes"}, episodes |-> episodes]
LinksBodies ==
  {NoBody, BadBody, OtherBody, LinksBody(<<>>),
   LinksBody(<<RequestedEpisode(Some("S01E01"), Some("https://filman.cc/e/1"))>>),
   LinksBody(<<RequestedEpisode(Some("S01E01"), None),
               RequestedEpisode(None, Some("https://filman.cc/e/2"))>>)}

\* a request arrives; line 347
call_scrape_links(t) ==
  /\ \E data \in LinksBodies :
       /\ Begin(t, "scrape_links", data, "sl_parse", <<>>)
       /\ loc' = [loc EXCEPT ![t].data = data]
  /\ UNCHANGED Unchanged_by_Begin

\* lines 347-359
sl_parse(t) ==
  /\ pc[t] = "sl_parse"
  /\ LET data == loc[t].data
     IN  IF data = BadBody
         THEN /\ Continue(t, Throw("sl_parse", stack[t]))
              /\ UNCHANGED <<self, loc, driver, is_logged_in>>
         ELSE IF "episodes" \notin data.keys
         THEN Respond(t, 400, [success |-> FALSE, error |-> "Missing episodes in request body"])
         ELSE /\ loc' = [loc EXCEPT ![t].episodes = data.episodes]
              /\ Continue(t, Enter("gs_check", "sl_scraper", "sl_auth", stack[t]))
              /\ UNCHANGED <<self, driver, is_logged_in>>
  /\ UNCHANGED <<app_vars, browser_vars, site, headless, ghost_vars, log>>

\* lines 368-383 from element i of 'episodes' on: an element without a url is
\* passed over, the links of the next one are fetched
sl_from(t, results, i) ==
  LET episodes == loc[t].episodes
      rest == {k \in i..Len(episodes) : episodes[k].url \notin {None, Some("")}}
  IN  IF rest = {}
      THEN Respond(t, 200, [success |-> TRUE, results |-> results, count |-> Len(results)])
      ELSE LET k == CHOOSE k \in rest : \A j \in rest : k <= j
           IN  /\ loc' = [loc EXCEPT ![t].results = results, ![t].i = k,
                                     ![t].episode_url = episodes[k].url[1]]
               /\ Continue(t, Enter("esl_get", "sl_links", "sl_linked", stack[t]))
               /\ UNCHANGED <<self, driver, is_logged_in>>

\* lines 361-362: the scraper's flag decides whether the login is checked
sl_auth(t) ==
  /\ pc[t] = "sl_auth"
  /\ IF is_logged_in[rv[t].value[1]]
     THEN /\ Continue(t, Goto("sl_first", stack[t]))
     ELSE /\ Continue(t, Enter("cil_enter", "sl_auth", "sl_checked", stack[t]))
  /\ self' = [self EXCEPT ![t] = rv[t].value[1]]
  /\ UNCHANGED <<app_vars, driver, is_logged_in, browser_vars, site, loc, headless,
                 ghost_vars, log>>

\* lines 362-366
sl_checked(t) ==
  /\ pc[t] = "sl_checked"
  /\ IF rv[t].value = FALSE
     THEN Respond(t, 401, [success |-> FALSE, error |-> "Not logged in"])
     ELSE /\ Continue(t, Goto("sl_first", stack[t]))
          /\ UNCHANGED <<self, loc, driver, is_logged_in>>
  /\ UNCHANGED <<app_vars, browser_vars, site, headless, ghost_vars, log>>

\* lines 368-376, 394-398
sl_first(t) ==
  /\ pc[t] = "sl_first"
  /\ sl_from(t, <<>>, 1)
  /\ UNCHANGED <<app_vars, browser_vars, site, headless, ghost_vars, log>>

\* lines 377-383, then the next element
sl_linked(t) ==
  /\ pc[t] = "sl_linked"
  /\ LET ep == loc[t].episodes[loc[t].i]
     IN  sl_from(t, Append(loc[t].results,
                           [episode |-> IF ep.episode = None THEN "Unknown" ELSE ep.episode[1],
                            url |-> ep.url[1], links |-> rv[t].value]),
                 loc[t].i + 1)
  /\ UNCHANGED <<app_vars, browser_vars, site, headless, ghost_vars, log>>

\* lines 406-411
sl_error(t) ==
  /\ pc[t] = "sl_error"
  /\ Respond(t, 500, [success |-> FALSE, error |-> "exception"])
  /\ UNCHANGED <<app_vars, browser_vars, site, headless, ghost_vars, log>>

\* the service is up with its scraper and browser, on the home page of a site
\* whose search lists some dated tiles
DatedTiles ==
  {Tile(Link("https://filman.cc/s/a"), <<"A">>, <<"2020">>),
   Tile(Link("https://filman.cc/s/b"), <<"B">>, <<" 2008 ">>),
   Tile(Link("https://filman.cc/s/c"), <<"C">>, <<"2008">>),
   Tile(Link("https://filman.cc/m/d"), <<"D">>, <<"2008">>),
   Tile(Link("https://filman.cc/s/e"), <<"E">>, NoElem)}

InitSearch ==
  /\ \E posters \in SeqsUpTo(DatedTiles, MaxTiles) :
       /\ site = [NoElements EXCEPT !.posters = posters, !.search_input = TRUE]
       /\ page = [b \in Browsers |->
                    IF b = 1 THEN Document(BASE_URL, NoElements, FALSE) ELSE BlankPage]
  /\ scraper_instance = Some(1)
  /\ scraper_lock = None
  /\ session_cookies = None
  /\ cookies_file = None
  /\ driver = [i \in Objects |-> IF i = 1 THEN Some(1) ELSE None]
  /\ is_logged_in = [i \in Objects |-> FALSE]
  /\ headless = [i \in Objects |-> HEADLESS_MODE]
  /\ live = {1}
  /\ launched = 1
  /\ jar = {}
  /\ InitThreads(Client, 0)
  /\ prev = <<>>
  /\ log = [t \in Client |-> <<>>]

NextSearch ==
  \E t \in Client :
    \/ call_scrape_search(t) \/ sq_parse(t) \/ sq_search(t) \/ sq_searched(t)
    \/ sq_results(t) \/ sq_selected(t) \/ sq_respond(t) \/ sq_error(t) \/ next_request(t)
    \/ gs_check(t) \/ gs_return(t)
    \/ ss_enter(t) \/ ss_get(t) \/ ss_input(t)
    \/ gsr_find(t) \/ sel_click(t) \/ ee_find(t)

SpecSearch == InitSearch /\ [][NextSearch]_vars

\* the outermost call of t is over and the browser carried out its commands
Finished(t, op) == pc[t] = "idle" /\ call[t].op = op
Answered(t) == \A k \in DOMAIN log[t] : log[t][k].ok
Clicked(t) == {log[t][k].href : k \in {j \in DOMAIN log[t] : log[t][j].cmd = "click"}}

(***************************************************************************)
(* C1.  Index consistency: for every page of result tiles, every filter f   *)
(* (none, "serial", "film") and every index i, if get_search_results(f)     *)
(* reports an item at position i then select_result_by_index(i, f) on the   *)
(* same page clicks the link of that same tile (same URL), also when some   *)
(* tiles are malformed and were skipped by get_search_results.              *)
(***************************************************************************)
C1_IndexConsistency ==
  \A t \in Threads :
    LET results == get_search_results(call[t].page.posters, call[t].args.content_type)
    IN  ( /\ Finished(t, "select_result_by_index")
          /\ Answered(t)
          /\ call[t].args.index \in 0..(Len(results) - 1) )
        => Clicked(t) = {Some(results[call[t].args.index + 1].url)}

\* ---- episode pages with a links table ----
LinkRow(cells, anchor) == [cells |-> cells, anchor |-> anchor]
VideoLink(text, data_iframe) == <<[text |-> text, data_iframe |-> data_iframe]>>
Cells == <<"", " Lektor ", " 720p ">>
Payloads ==
  {None, Some(""),
   Some("eyJzcmMiOiJ1In0="),      \* {"src":"u"}
   Some("eyJzcmMiOiJ1In0=!"),     \* the same with a character outside the alphabet
   Some("!!!"),
   Some("eyJ"),                   \* incomplete quantum
   Some("/w=="),                  \* the byte FF
   Some("bm90IGpzb24="),          \* not json
   Some("WzFd"),                  \* [1]
   Some("eyJhIjoxfQ=="),          \* {"a":1}
   Some("eyJzcmMiOiIifQ=="),      \* {"src":""}
   Some("eyJzcmMiOm51bGx9"),      \* {"src":null}
   Some("eyJzcmMiOjV9")}          \* {"src":5}
ProviderTexts == {"doodstream", "VOE.SX  hd", "vidoza", "", "xstreamupx", "  "}
LinkRows ==
  {LinkRow(Cells, VideoLink("doodstream", data_iframe)) : data_iframe \in Payloads}
  \cup {LinkRow(Cells, VideoLink(text, Some("eyJzcmMiOiJ2In0="))) : text \in ProviderTexts}
  \cup {LinkRow(<<"", "Napisy">>, VideoLink("doodstream", Some("eyJzcmMiOiJ1In0="))),
        LinkRow(Cells, NoElem)}
EPISODE_URL == "https://filman.cc/e/1"

InitLinks ==
  /\ \E link_rows \in SeqsUpTo(LinkRows, MaxRows) :
       InitScraper([NoElements EXCEPT !.link_rows = link_rows], BASE_URL, {})
  /\ prev = <<>>

NextLinks ==
  \E t \in Client : call_extract_streaming_links(t, {EPISODE_URL}) \/ esl_get(t) \/ esl_rows(t)

SpecLinks == InitLinks /\ [][NextLinks]_vars

\* the links table the finished extract_streaming_links call of t read
Table(t) == page[driver[self[t]][1]].link_rows
Without(rows, k) == [j \in 1..(Len(rows) - 1) |-> IF j < k THEN rows[j] ELSE rows[j + 1]]
LinksRead(t) == Finished(t, "extract_streaming_links") /\ Answered(t)

\* the provider string of a row: link text lower-cased, first token;
\* "unknown" when the text is empty; none when the row has no such text
ProviderString(row) ==
  IF row.anchor = NoElem THEN None
  ELSE IF row.anchor[1].text = "" THEN Some("unknown")
  ELSE IF split(lower(row.anchor[1].text)) = <<>> THEN None
  ELSE Some(split(lower(row.anchor[1].text))[1])
FiveProviders == {"doodstream", "voe.sx", "savefiles", "vid-guard", "streamup"}
ProvidersOf(links) == {links[k].provider : k \in DOMAIN links}

(***************************************************************************)
(* C5 as stated.  For every links-table row, if the provider string is not  *)
(* one of the five allow-listed providers, extract_streaming_links          *)
(* produces no StreamLink for that row (none with its provider string).     *)
(***************************************************************************)
C5_NotOneOfTheFive ==
  \A t \in Threads : LinksRead(t) =>
    \A k \in DOMAIN Table(t) :
      LET p == ProviderString(Table(t)[k])
      IN  (p # None /\ p[1] \notin FiveProviders) => p[1] \notin ProvidersOf(rv[t].value)

(***************************************************************************)
(* C5 amended.  For every links-table row, if the provider string contains  *)
(* none of the five allow-listed names as a substring,                      *)
(* extract_streaming_links produces no StreamLink for that row.             *)
(***************************************************************************)
C5_ContainsNoneOfTheFive ==
  \A t \in Threads : LinksRead(t) =>
    \A k \in DOMAIN Table(t) :
      LET p == ProviderString(Table(t)[k])
      IN  (p # None /\ \A name \in FiveProviders : ~Contains(name, p[1]))
          => p[1] \notin ProvidersOf(rv[t].value)

\* a table with a row of a provider outside the list and a complete payload
\* was read, and a link of another row came out
C5_Witness ==
  \E t \in Threads :
    /\ LinksRead(t)
    /\ \E k \in DOMAIN Table(t) :
         /\ ProviderString(Table(t)[k]) = Some("vidoza")
         /\ Table(t)[k].anchor[1].data_iframe = Some("eyJzcmMiOiJ2In0=")
    /\ rv[t].value # <<>>

\* the data-iframe attribute of a row's provider link, None when absent
PayloadOf(row) == IF row.anchor = NoElem THEN None ELSE row.anchor[1].data_iframe

\* RFC 4648 base64: groups of four alphabet characters, the last group
\* padded with at most two "="
StrictBase64(s) ==
  LET n == Len(s)
      pads == IF n >= 2 /\ SubSeq(s, n - 1, n) = "==" THEN 2
              ELSE IF n >= 1 /\ Ch(s, n) = "=" THEN 1 ELSE 0
  IN  /\ n % 4 = 0
      /\ \A i \in 1..(n - pads) : Ch(s, i) \in DOMAIN B64Values

\* the decoder's output is UTF-8 text that parses as JSON
DecodesToJSON(s) ==
  LET raw == b64decode(s)
      decoded == utf8_decode(raw.bytes)
  IN  raw.ok /\ decoded.ok /\ json_loads(decoded.text).ok

\* that JSON is an object with a src member that is not null, false, 0 or empty
HasUsableSrc(s) ==
  LET v == json_loads(utf8_decode(b64decode(s).bytes).text).v
      src == dict_get(v, Ords("src"))
  IN  v.t = "object" /\ src # None /\ truthy(src[1])

(***************************************************************************)
(* C6 as stated.  A links-table row whose data-iframe payload is absent, is *)
(* not valid base64, does not decode to JSON, or decodes to JSON without a  *)
(* usable src field never produces a StreamLink, and every later row is     *)
(* still processed: the result equals the result for the table with the     *)
(* bad row removed.                                                         *)
(***************************************************************************)
C6_NotValidBase64 ==
  \A t \in Threads : LinksRead(t) =>
    \A k \in DOMAIN Table(t) :
      LET p == PayloadOf(Table(t)[k])
      IN  (p = None \/ ~StrictBase64(p[1]) \/ ~DecodesToJSON(p[1]) \/ ~HasUsableSrc(p[1]))
          => rv[t].value = links_from(Without(Table(t), k), 1)

(***************************************************************************)
(* C6 amended.  A links-table row whose data-iframe payload is absent or    *)
(* empty, is rejected by the base64 decoder (which discards characters      *)
(* outside the alphabet), does not decode to UTF-8 JSON text, or decodes to *)
(* JSON without a usable src field never produces a StreamLink, and every   *)
(* later row is still processed: the result equals the result for the       *)
(* table with the bad row removed.                                          *)
(***************************************************************************)
C6_PayloadTheDecoderRejects ==
  \A t \in Threads : LinksRead(t) =>
    \A k \in DOMAIN Table(t) :
      LET p == PayloadOf(Table(t)[k])
      IN  (p = None \/ p[1] = "" \/ ~b64decode(p[1]).ok
             \/ ~DecodesToJSON(p[1]) \/ ~HasUsableSrc(p[1]))
          => rv[t].value = links_from(Without(Table(t), k), 1)

\* a table whose first row has a payload that is not JSON and whose second
\* row is complete was read, and the second row's link came out
C6_Witness ==
  \E t \in Threads :
    /\ LinksRead(t)
    /\ Len(Table(t)) = 2
    /\ PayloadOf(Table(t)[1]) = Some("bm90IGpzb24=")
    /\ ProviderString(Table(t)[1]) = Some("doodstream")
    /\ Len(rv[t].value) = 1
    /\ rv[t].value[1].url = [t |-> "string", s |-> Ords("u")]

\* ---- title pages: a movie page or a series page with its episode list ----
Item(has_span, anchor) == [has_span |-> has_span, anchor |-> anchor]
Anchor(text) == <<[text |-> text, href |-> Some("https://filman.cc/e/1")]>>
AnchorTexts ==
  {"[S01E01] Pilot", "Odc 5", "[s01e02]   the  title ", " [S02E01]Two ", "[a]b]c",
   "[]x", "[S01E01", "S01 [E01]", "[E3] a\nb", ""}
Items ==
  {Item(FALSE, Anchor(text)) : text \in AnchorTexts}
  \cup {Item(TRUE, Anchor("Sezon 1")), Item(FALSE, NoElem)}
TitleUrls == {"https://filman.cc/s/a", "https://filman.cc/m/b", "https://filman.cc/film/c"}
Headings == {NoElem, <<" Movie B ">>}

InitEpisodes ==
  /\ \E url \in TitleUrls, heading \in Headings, items \in SeqsUpTo(Items, MaxItems) :
       InitScraper([NoElements EXCEPT !.heading = heading, !.items = items], url, {})
  /\ prev = <<>>

NextEpisodes ==
  \E t \in Client : call_extract_episodes(t) \/ ee_find(t)

SpecEpisodes == InitEpisodes /\ [][NextEpisodes]_vars

\* the finished extract_episodes call of t read the page the browser shows
EpisodesRead(t) == Finished(t, "extract_episodes") /\ Answered(t)

(***************************************************************************)
(* C7.  Whenever the current URL of a live handle contains '/m/' or         *)
(* '/film/', extract_episodes returns exactly one episode whose label is    *)
(* 'FILM', whose url is the current URL and whose title is the page heading *)
(* (its text, trimmed), or the default 'Film' when no heading exists,       *)
(* regardless of any episode list present on the page.                      *)
(***************************************************************************)
C7_MovieYieldsOneEpisode ==
  \A t \in Threads :
    LET shown == call[t].page
    IN  ( /\ EpisodesRead(t)
          /\ Contains("/m/", shown.current_url) \/ Contains("/film/", shown.current_url) )
        => /\ Len(rv[t].value) = 1
           /\ rv[t].value[1].episode = "FILM"
           /\ rv[t].value[1].url = Some(shown.current_url)
           /\ rv[t].value[1].title =
                IF shown.heading = NoElem THEN "Film" ELSE strip(shown.heading[1])

\* a '/film/' page without a heading and with an episode list was read
C7_Witness ==
  \E t \in Threads :
    /\ EpisodesRead(t)
    /\ call[t].page.current_url = "https://filman.cc/film/c"
    /\ call[t].page.heading = NoElem
    /\ Len(call[t].page.items) = MaxItems
    /\ Len(rv[t].value) = 1

\* the anchors of the list items that are episodes: no season header, a link
IsEpisodeItem(item) == ~item.has_span /\ item.anchor # NoElem
AnchorsOf(items) ==
  LET kept == SelectSeq(items, IsEpisodeItem)
  IN  [k \in DOMAIN kept |-> kept[k].anchor[1]]

\* text (trimmed) has the form '[L] T': "[", a non-empty L without "]", "]", T
FirstClosing(s) == CHOOSE i \in 2..Len(s) : Ch(s, i) = "]" /\ \A j \in 2..(i - 1) : Ch(s, j) # "]"
Bracketed(text) ==
  LET s == strip(text)
  IN  /\ Len(s) >= 3
      /\ Ch(s, 1) = "["
      /\ \E i \in 3..Len(s) : Ch(s, i) = "]" /\ \A j \in 2..(i - 1) : Ch(s, j) # "]"
LabelIn(text) == SubSeq(strip(text), 2, FirstClosing(strip(text)) - 1)
TitleIn(text) == SubSeq(strip(text), FirstClosing(strip(text)) + 1, Len(strip(text)))
FirstLine(s) ==
  IF \E i \in 1..Len(s) : Ch(s, i) = "\n"
  THEN SubSeq(s, 1, (CHOOSE i \in 1..Len(s) : Ch(s, i) = "\n" /\ \A j \in 1..(i - 1) : Ch(s, j) # "\n") - 1)
  ELSE s

\* a series page was read and every episode item of its list gave an episode
SeriesRead(t) ==
  /\ EpisodesRead(t)
  /\ call[t].page.current_url = "https://filman.cc/s/a"
  /\ Len(rv[t].value) = Len(AnchorsOf(call[t].page.items))

(***************************************************************************)
(* C8 as stated.  Episode label parsing: for every anchor text of the form  *)
(* '[L] T' the produced episode has label L and title T (trimmed); for      *)
(* every anchor text that does not start with a bracketed label the         *)
(* produced episode has the whole text as label and an empty title.         *)
(***************************************************************************)
C8_LabelAsWritten ==
  \A t \in Threads : EpisodesRead(t) /\ call[t].page.current_url = "https://filman.cc/s/a" =>
    /\ Len(rv[t].value) = Len(AnchorsOf(call[t].page.items))
    /\ \A k \in DOMAIN rv[t].value :
         LET text == AnchorsOf(call[t].page.items)[k].text
         IN  IF Bracketed(text)
             THEN /\ rv[t].value[k].episode = LabelIn(text)
                  /\ rv[t].value[k].title = strip(TitleIn(text))
             ELSE /\ rv[t].value[k].episode = strip(text)
                  /\ rv[t].value[k].title = ""

(***************************************************************************)
(* C8 amended.  Episode label parsing: for every anchor text of the form    *)
(* '[L] T' (L not empty) the produced episode has label L in upper case and *)
(* as title the first line of T, trimmed; for every anchor text that does   *)
(* not start with a bracketed label the produced episode has the whole      *)
(* text as label and an empty title.                                        *)
(***************************************************************************)
C8_LabelUpperCased ==
  \A t \in Threads : EpisodesRead(t) /\ call[t].page.current_url = "https://filman.cc/s/a" =>
    /\ Len(rv[t].value) = Len(AnchorsOf(call[t].page.items))
    /\ \A k \in DOMAIN rv[t].value :
         LET text == AnchorsOf(call[t].page.items)[k].text
         IN  IF Bracketed(text)
             THEN /\ rv[t].value[k].episode = upper(LabelIn(text))
                  /\ rv[t].value[k].title = strip(FirstLine(lstrip(TitleIn(text))))
             ELSE /\ rv[t].value[k].episode = strip(text)
                  /\ rv[t].value[k].title = ""

\* a list with a lower-case bracketed label and a text without brackets was read
C8_Witness ==
  \E t \in Threads :
    /\ SeriesRead(t)
    /\ Len(rv[t].value) = 2
    /\ AnchorsOf(call[t].page.items)[1].text = "[s01e02]   the  title "
    /\ rv[t].value[1].episode = "S01E02"
    /\ rv[t].value[1].title = "the  title"
    /\ AnchorsOf(call[t].page.items)[2].text = "Odc 5"
    /\ rv[t].value[2].episode = "Odc 5"

\* ---- a client that injects cookie lists and checks the login ----
CookieRecords ==
  {SessionCookie,
   ExpiredCookie,
   Cookie(Some("user_token"), Some("token456"), Some(DEFAULT_DOMAIN)),
   Cookie(Some("user_token"), Some("token456"), Some("filman.cc")),
   Cookie(Some(SESSION_COOKIE), Some("example123"), Some("example.com")),
   Cookie(None, Some("example123"), None),
   Cookie(Some(SESSION_COOKIE), None, Some(DEFAULT_DOMAIN))}
CookieLists == SeqsUpTo(CookieRecords, MaxCookies)

\* the records of a list that have both name and value, a record without
\* domain given the domain '.filman.cc'
HasNameAndValue(cookie) == cookie.name # None /\ cookie.value # None
WithDomain(cookie) ==
  IF cookie.domain = None THEN [cookie EXCEPT !.domain = Some(".filman.cc")] ELSE cookie
Applicable(cookies) ==
  LET kept == SelectSeq(cookies, HasNameAndValue)
  IN  [k \in DOMAIN kept |-> WithDomain(kept[k])]

\* what earlier runs can have left in the profile: at most one cookie of a name
ProfileJars ==
  {cookie_jar \in SUBSET {stored(WithDomain(c)) : c \in {c \in CookieRecords : HasNameAndValue(c)}} :
     /\ \A c \in cookie_jar : c.domain = DEFAULT_DOMAIN
     /\ \A c, d \in cookie_jar : c.name = d.name => c = d}

InitCookies ==
  /\ \E cookie_jar \in ProfileJars : InitScraper(NoElements, BASE_URL, cookie_jar)
  /\ prev = [t \in Client |-> NoHistory]

\* the client injects one list, again and again (an equal list, or the list
\* object it passed before), and checks the login in between
ClientLists(t) ==
  IF call[t].op = "inject_cookies" THEN {call[t].args.cookies}
  ELSE IF prev[t].call.op = "inject_cookies" THEN {prev[t].call.args.cookies}
  ELSE CookieLists

check_between(t) == call[t].op # "check_if_logged_in" /\ call_check_if_logged_in(t)

NextCookies ==
  \E t \in Client :
    \/ call_inject_cookies(t, ClientLists(t)) \/ inj_enter(t) \/ inj_get(t)
    \/ inj_add(t) \/ inj_refresh(t)
    \/ check_between(t)
    \/ cil_enter(t) \/ cil_get(t) \/ cil_find(t)

SpecCookies == InitCookies /\ [][NextCookies]_vars

\* the add_cookie commands of the call of t, and its reloads
IsAddCookie(command) == command.cmd = "add_cookie"
IsRefresh(command) == command.cmd = "refresh"
Applied(t) == SelectSeq(log[t], IsAddCookie)
Injected(t) == Finished(t, "inject_cookies") /\ ~rv[t].raised

(***************************************************************************)
(* C9.  For every cookie list passed to inject_cookies (a call that         *)
(* returns), the cookies applied to the browser are exactly the records     *)
(* that have both name and value, in list order; each applied record that   *)
(* lacked a domain is applied with domain '.filman.cc'; a record the        *)
(* browser rejects does not prevent later records from being applied (an    *)
(* accepted record is in the cookie store afterwards unless a later one     *)
(* replaced it); and the page is reloaded once, after the last record.      *)
(***************************************************************************)
C9_AppliedCookies ==
  \A t \in Threads : Injected(t) =>
    LET applied == Applied(t)
        n == Len(log[t])
    IN  /\ [k \in DOMAIN applied |-> applied[k].cookie] = Applicable(call[t].args.cookies)
        /\ \A k \in DOMAIN applied :
             ( /\ applied[k].ok
               /\ \A j \in (k + 1)..Len(applied) :
                    applied[j].ok =>
                      \/ applied[j].cookie.name # applied[k].cookie.name
                      \/ stored(applied[j].cookie).domain # stored(applied[k].cookie).domain )
             => stored(applied[k].cookie) \in jar
        /\ Len(SelectSeq(log[t], IsRefresh)) = 1
        /\ log[t][n].cmd = "refresh" /\ log[t][n].ok

\* a list of a record the browser rejects and a record without domain was
\* injected: both were applied, the second one is in the store
C9_Witness ==
  \E t \in Threads :
    /\ Injected(t)
    /\ call[t].args.cookies =
         <<Cookie(Some(SESSION_COOKIE), Some("example123"), Some("example.com")), SessionCookie>>
    /\ Len(Applied(t)) = 2
    /\ ~Applied(t)[1].ok
    /\ Applied(t)[2].ok
    /\ Applied(t)[2].cookie.domain = Some(DEFAULT_DOMAIN)
    /\ prev[t].jar = {}
    /\ jar = {[name |-> "session_id", value |-> "example123", domain |-> ".filman.cc"]}

\* the call of t that is over came after a returned inject_cookies call with
\* an identical list: an equal list, or the same list object again
InjectedAgain(t) ==
  /\ Finished(t, "inject_cookies")
  /\ prev[t].call.op = "inject_cookies"
  /\ ~prev[t].rv.raised
  /\ call[t].args.cookies \in {prev[t].call.args.cookies, prev[t].cookies}

(***************************************************************************)
(* C10.  inject_cookies is idempotent: with no external state change,       *)
(* calling inject_cookies twice with an identical cookie list leaves the    *)
(* browser's cookie jar the same as after the first call, and therefore     *)
(* the result of check_if_logged_in, which the jar determines.              *)
(***************************************************************************)
C10_InjectTwice ==
  \A t \in Threads :
    /\ InjectedAgain(t) => jar = prev[t].jar
    /\ Finished(t, "check_if_logged_in") /\ Answered(t)
         => rv[t].value = logged_in_marker(jar)

\* the session cookie was injected twice in a row, without domain both times
C10_Witness ==
  \E t \in Threads :
    /\ InjectedAgain(t)
    /\ ~rv[t].raised
    /\ call[t].args.cookies = <<SessionCookie>>
    /\ prev[t].call.args.cookies = <<SessionCookie>>
    /\ jar # {}

(***************************************************************************)
(* C2.  At most one live browser handle (a browser started and not yet      *)
(* quit) exists at any time, over every sequence of get_scraper,            *)
(* inject_cookies, check_if_logged_in, search_series and close calls,       *)
(* including sequences in which driver initialization or quit fails.        *)
(***************************************************************************)
C2_AtMostOneLiveBrowser == Cardinality(live) <= 1

(***************************************************************************)
(* C3.  At most one browser-driving operation is in flight at a time: when  *)
(* two requests are handled concurrently, no state is reachable in which    *)
(* two of them are between two commands of their operations on the same     *)
(* browser (one has navigated and is about to query or reload while the     *)
(* other has navigated and is about to query or reload).                    *)
(***************************************************************************)
MidOperation(t) ==
  /\ pc[t] \in {"cil_find", "inj_add", "inj_refresh"}
  /\ driver[self[t]] # None

C3_OneDrivingOperation ==
  \A t \in Threads : \A u \in Threads \ {t} :
    MidOperation(t) /\ MidOperation(u) => driver[self[t]] # driver[self[u]]

(***************************************************************************)
(* C4.  Every creation or replacement of the shared browser handle (every   *)
(* step that starts a browser and assigns it to a driver field, lazy        *)
(* initialization included) is taken by a thread that holds scraper_lock.   *)
(***************************************************************************)
C4_HandleCreatedUnderLock ==
  [][launched' # launched =>
       \E t \in Threads : pc[t] = "init_chrome" /\ pc'[t] # pc[t] /\ scraper_lock = Some(t)]_vars

(***************************************************************************)
(* C11.  check_if_logged_in never raises: in every state (null handle,      *)
(* driver initialization failure, navigation or DOM-query failure) it       *)
(* returns a boolean, and it returns False whenever an internal error       *)
(* occurs (a command it gave to the browser failed).                        *)
(***************************************************************************)
C11_CheckNeverRaises ==
  \A t \in Threads : Finished(t, "check_if_logged_in") =>
    /\ ~rv[t].raised
    /\ rv[t].value \in BOOLEAN
    /\ ~Answered(t) => rv[t].value = FALSE

\* a check that had to start the browser, which failed to start, returned False
C11_Witness ==
  \E t \in Threads :
    /\ Finished(t, "check_if_logged_in")
    /\ Len(log[t]) = 1
    /\ log[t][1].cmd = "Chrome"
    /\ ~log[t][1].ok
    /\ rv[t] = Returned(FALSE)

(***************************************************************************)
(* C12.  check_if_logged_in sets the authenticated flag as a side effect:   *)
(* immediately after any call returns, is_logged_in equals the returned     *)
(* boolean (True when the marker was found, False when it was not found or  *)
(* the check failed).                                                       *)
(***************************************************************************)
C12_FlagEqualsResult ==
  \A t \in Threads : Finished(t, "check_if_logged_in") =>
    is_logged_in[self[t]] = rv[t].value

(***************************************************************************)
(* C13.  After close() returns the owned handle is always null, whether the *)
(* underlying quit succeeded or raised; close() never propagates the        *)
(* teardown failure; and close() with no active handle is a no-op (it gives *)
(* the browser no command and changes nothing).                             *)
(***************************************************************************)
C13_CloseNullsHandle ==
  [][\A t \in Threads :
       (call[t].op = "close" /\ pc[t] = "close" /\ pc'[t] = "idle") =>
         /\ driver'[self[t]] = None
         /\ ~rv'[t].raised
         /\ driver[self[t]] = None => UNCHANGED <<driver, live, log, is_logged_in, page, jar>>
    ]_vars

\* a close whose quit raised has returned: the handle is null all the same
C13_Witness ==
  \E t \in Threads :
    /\ Finished(t, "close")
    /\ log[t] = <<[cmd |-> "quit", ok |-> FALSE]>>
    /\ driver[self[t]] = None
    /\ rv[t] = Returned(None)

(***************************************************************************)
(* C14: in /api/scrape/search, when a year is supplied, the index handed    *)
(* to select_result_by_index is the position of the first listed result     *)
(* whose year equals the requested year written as a string; when no        *)
(* result has that year, or no year is supplied, the index is 0.  (A year   *)
(* of 0 or "" counts as not supplied.)                                      *)
(***************************************************************************)
\* the requested year as a string, for the years the requests carry
YearAsString(year) ==
  CASE year = IntYear(2008) -> "2008"
    [] year = TextYear("2008") -> "2008"
    [] year = IntYear(2020) -> "2020"
    [] year = IntYear(1999) -> "1999"
    [] OTHER -> ""
YearSupplied(data) ==
  "year" \in data.keys /\ data.year \notin {None, IntYear(0), TextYear("")}
Selecting(t) == call[t].op = "scrape_search" /\ pc[t] = "sel_click"

C14_YearSelectsFirstMatch ==
  \A t \in Threads : Selecting(t) =>
    LET listed == loc[t].results
        matches == IF YearSupplied(call[t].args)
                   THEN {i \in DOMAIN listed : listed[i].year = YearAsString(call[t].args.year)}
                   ELSE {}
    IN  /\ matches = {} => loc[t].index = 0
        /\ matches # {} => /\ loc[t].index + 1 \in matches
                           /\ \A i \in matches : loc[t].index + 1 <= i

\* two results listed, only the second of the requested year 2008: index 1
C14_Witness ==
  \E t \in Threads :
    /\ Selecting(t)
    /\ call[t].args.year = IntYear(2008) /\ "year" \in call[t].args.keys
    /\ Len(loc[t].results) = 2
    /\ loc[t].results[1].year # "2008" /\ loc[t].results[2].year = "2008"
    /\ loc[t].index = 1

(***************************************************************************)
(* C15: get_scraper never returns normally with a scraper whose browser     *)
(* handle is null.                                                          *)
(***************************************************************************)
C15_ScraperHasHandle ==
  \A t \in Threads :
    (Finished(t, "get_scraper") /\ ~rv[t].raised) => driver[rv[t].value[1]] # None

(***************************************************************************)
(* C17: login_manual returns True only in three cases: the browser was      *)
(* redirected away from the login page right after navigation; the login    *)
(* form disappeared and then the logged-in marker appeared; the fallback    *)
(* check succeeded.  In each of them is_logged_in is True on return.  In    *)
(* every other case, an internal error included, it returns False without   *)
(* raising.                                                                 *)
(***************************************************************************)
Last(t) == log[t][Len(log[t])]
Redirected(t) ==
  /\ log[t] # <<>> /\ Last(t).cmd = "get" /\ Last(t).ok
  /\ Last(t).landed # LOGIN_URL
FormGoneMarkerSeen(t) ==
  /\ Len(log[t]) >= 2
  /\ Last(t) = [cmd |-> "wait_marker", ok |-> TRUE, timeout |-> FALSE]
  /\ log[t][Len(log[t]) - 1] = [cmd |-> "wait_form", ok |-> TRUE, timeout |-> FALSE]
FallbackSucceeded(t) ==
  log[t] # <<>> /\ Last(t) = [cmd |-> "checked", ok |-> TRUE, value |-> TRUE]

C17_LoginTrueCases ==
  \A t \in Threads : Finished(t, "login_manual") =>
    /\ ~rv[t].raised
    /\ rv[t].value \in BOOLEAN
    /\ rv[t].value = TRUE <=> (Redirected(t) \/ FormGoneMarkerSeen(t) \/ FallbackSucceeded(t))
    /\ rv[t].value = TRUE => is_logged_in[self[t]]

\* the form went, the marker came: True, and the flag is set by login_manual
C17_Witness ==
  \E t \in Threads :
    /\ Finished(t, "login_manual") /\ FormGoneMarkerSeen(t)
    /\ rv[t] = Returned(TRUE) /\ is_logged_in[self[t]]

(***************************************************************************)
(* C18: when either stage of the login wait times out, login_manual makes   *)
(* exactly one check_if_logged_in call as a fallback and returns its        *)
(* result, with no further wait or retry.                                   *)
(***************************************************************************)
TimedOut(t) == {k \in DOMAIN log[t] : log[t][k].cmd \in {"wait_form", "wait_marker"}
                                      /\ log[t][k].timeout}
Checks(t) == {k \in DOMAIN log[t] : log[t][k].cmd = "check_if_logged_in"}

C18_OneFallbackCheck ==
  \A t \in Threads : (Finished(t, "login_manual") /\ TimedOut(t) # {}) =>
    \E k \in TimedOut(t) :
      /\ TimedOut(t) = {k}
      /\ Checks(t) = {k + 1}
      /\ \A j \in DOMAIN log[t] :
           (k + 1 < j /\ j < Len(log[t])) => log[t][j].cmd \in {"get", "find_elements"}
      /\ Last(t).cmd = "checked"
      /\ rv[t] = Returned(Last(t).value)

\* the first stage timed out and the one fallback check gave True
C18_Witness ==
  \E t \in Threads :
    /\ Finished(t, "login_manual")
    /\ \E k \in TimedOut(t) : log[t][k].cmd = "wait_form"
    /\ Last(t) = [cmd |-> "checked", ok |-> TRUE, value |-> TRUE]
    /\ rv[t] = Returned(TRUE)

(***************************************************************************)
(* A client that holds a headless or windowed scraper, with or without its  *)
(* browser (browser 0 was started before the run), and scrapes a series.    *)
(***************************************************************************)
SeriesSite ==
  [NoElements EXCEPT
     !.posters = <<Tile(Link("https://filman.cc/s/a"), <<"A">>, <<"2020">>)>>,
     !.items = <<Item(FALSE, Anchor("[S01E01] Pilot"))>>,
     !.link_rows = <<LinkRow(Cells, VideoLink("doodstream", Some("eyJzcmMiOiJ2In0=")))>>,
     !.search_input = TRUE]

InitSeries ==
  /\ scraper_instance = None
  /\ scraper_lock = None
  /\ session_cookies = None
  /\ cookies_file = None
  /\ \E handle \in {None, Some(0)}, mode \in BOOLEAN :
       /\ driver = [i \in Objects |-> IF i = 1 THEN handle ELSE None]
       /\ live = {handle[k] : k \in DOMAIN handle}
       /\ headless = [i \in Objects |-> IF i = 1 THEN mode ELSE FALSE]
  /\ \E flag \in BOOLEAN : is_logged_in = [i \in Objects |-> i = 1 /\ flag]
  /\ launched = 0
  /\ jar \in SavedJars
  /\ site \in {SeriesSite, [SeriesSite EXCEPT !.posters = <<>>]}
  /\ page = [b \in {0} \cup Browsers |-> BlankPage]
  /\ InitThreads(Client, 1)
  /\ prev = <<>>
  /\ log = [t \in Client |-> <<>>]

\* the client makes one call
one_scrape_series(t) ==
  /\ call[t] = NoCall
  /\ call_scrape_series(t, {"serial"}, {0, 1})

NextSeries ==
  \E t \in Client :
    \/ one_scrape_series(t)
    \/ sc_enter(t) \/ sc_login(t) \/ sc_checked(t) \/ sc_manual(t) \/ sc_gui(t)
    \/ sc_gui_login(t) \/ sc_gui_logged(t) \/ sc_headless(t) \/ sc_final(t)
    \/ sc_final_checked(t) \/ sc_search(t) \/ sc_searched(t) \/ sc_select(t)
    \/ sc_selected(t) \/ sc_episodes(t) \/ sc_linked(t)
    \/ lm_enter(t) \/ lm_get(t) \/ lm_fill(t) \/ lm_wait_form(t) \/ lm_wait_marker(t)
    \/ lm_fallback(t) \/ lm_checked(t)
    \/ cil_enter(t) \/ cil_get(t) \/ cil_find(t)
    \/ ss_enter(t) \/ ss_get(t) \/ ss_input(t) \/ gsr_find(t) \/ sel_click(t) \/ ee_find(t)
    \/ esl_get(t) \/ esl_rows(t)
    \/ close(t) \/ init_chrome(t) \/ init_script(t)

SpecSeries == InitSeries /\ [][NextSeries]_vars

(***************************************************************************)
(* C19: the relogin of scrape_series goes in this order: close, open a      *)
(* non-headless browser, manual login, close, open a headless browser,      *)
(* login check.  The search is submitted only if that last check gave       *)
(* True; when the manual login or the last check fails, scrape_series       *)
(* returns the empty list without searching.                                *)
(***************************************************************************)
IsMilestone(entry) ==
  entry.cmd \in {"quit", "Chrome", "manual_login", "manual_logged", "final_check",
                 "final_checked", "send_keys"}
Quits(t) == {k \in DOMAIN log[t] : log[t][k].cmd = "quit"}
\* the milestones of the call of t from its first close on
Relogin(t) ==
  IF Quits(t) = {} THEN <<>>
  ELSE LET first == CHOOSE k \in Quits(t) : \A j \in Quits(t) : k <= j
       IN  SelectSeq(SubSeq(log[t], first, Len(log[t])), IsMilestone)

C19_ReloginOrder ==
  \A t \in Threads : call[t].op = "scrape_series" =>
    LET m == Relogin(t)
        n == Len(m)
    IN  /\ n >= 2 => m[2].cmd = "Chrome" /\ ~m[2].headless
        /\ n >= 3 => m[2].ok /\ m[3].cmd = "manual_login"
        /\ n >= 4 => m[4].cmd = "manual_logged"
        /\ n >= 5 => m[4].value = TRUE /\ m[5].cmd = "quit"
        /\ n >= 6 => m[6].cmd = "Chrome" /\ m[6].headless
        /\ n >= 7 => m[6].ok /\ m[7].cmd = "final_check"
        /\ n >= 8 => m[8].cmd = "final_checked"
        /\ n >= 9 => m[8].value = TRUE /\ m[9].cmd = "send_keys"
        /\ n <= 9
        /\ (pc[t] = "idle" /\ n \in {4, 8} /\ m[n].value = FALSE) => rv[t] = Returned(<<>>)

\* the whole relogin went through and the search was submitted after it
C19_Witness ==
  \E t \in Threads :
    /\ Finished(t, "scrape_series")
    /\ Len(Relogin(t)) = 9
    /\ rv[t].value # <<>>

(***************************************************************************)
(* C20: get_search_results(filter) returns, in DOM order, exactly the       *)
(* well-formed tiles (with link and title) whose type passes the filter;    *)
(* the type is "serial" if the URL contains "/s/" or "/serial/", otherwise  *)
(* "film" if it contains "/m/" or "/film/", otherwise "unknown"; with no    *)
(* filter every well-formed tile is returned; a tile that misses a          *)
(* required field is skipped and does not stop the scan; a missing year     *)
(* gives an empty year.                                                     *)
(***************************************************************************)
WellFormed(tile) ==
  tile.link # NoElem /\ tile.link[1].href # None /\ tile.title # NoElem
TypeOfUrl(url) ==
  IF Contains("/s/", url) \/ Contains("/serial/", url) THEN "serial"
  ELSE IF Contains("/m/", url) \/ Contains("/film/", url) THEN "film"
  ELSE "unknown"
Passes(tile, filter) == filter = None \/ TypeOfUrl(tile.link[1].href[1]) = filter[1]
\* the DOM positions of the tiles to be listed, in order
RECURSIVE ListedFrom(_, _, _)
ListedFrom(posters, filter, k) ==
  IF k > Len(posters) THEN <<>>
  ELSE (IF WellFormed(posters[k]) /\ Passes(posters[k], filter) THEN <<k>> ELSE <<>>)
       \o ListedFrom(posters, filter, k + 1)

C20_ListsWellFormedTiles ==
  \A t \in Threads : (Finished(t, "get_search_results") /\ Answered(t)) =>
    LET posters == call[t].page.posters
        listed == ListedFrom(posters, call[t].args.content_type, 1)
        results == rv[t].value
    IN  /\ Len(results) = Len(listed)
        /\ \A i \in DOMAIN listed :
             LET tile == posters[listed[i]]
             IN  /\ results[i].url = tile.link[1].href[1]
                 /\ results[i].title = strip(tile.title[1])
                 /\ results[i].type = TypeOfUrl(results[i].url)
                 /\ results[i].year = IF tile.year = NoElem THEN "" ELSE strip(tile.year[1])

(***************************************************************************)
(* A client whose scraper has no browser makes a call and, when an          *)
(* initialization of the driver failed in it, one more call.                *)
(***************************************************************************)
InitAttempts(t) == {k \in DOMAIN log[t] : log[t][k].cmd \in {"Chrome", "execute_script"}}
\* the last _init_driver of the call of t raised
LastInitFailed(t) ==
  /\ InitAttempts(t) # {}
  /\ \E k \in InitAttempts(t) : (\A j \in InitAttempts(t) : j <= k) /\ ~log[t][k].ok

any_call(t) ==
  \/ call_get_scraper(t)
  \/ call_check_if_logged_in(t)
  \/ call_inject_cookies(t, {<<SessionCookie>>})
  \/ call_login_manual(t)
  \/ call_search_series(t)
  \/ call_scrape_series(t, {"serial"}, {0})

first_call(t) == call[t] = NoCall /\ any_call(t)
call_after_failure(t) ==
  /\ call[t] # NoCall /\ prev[t].call = NoCall
  /\ LastInitFailed(t)
  /\ any_call(t)

InitRetry ==
  /\ InitProcess
  /\ site = NoElements
  /\ InitThreads(Client, 1)
  /\ prev = [t \in Client |-> NoHistory]
  /\ log = [t \in Client |-> <<>>]

NextRetry ==
  \E t \in Client :
    \/ first_call(t) \/ call_after_failure(t)
    \/ gs_check(t) \/ gs_cil(t) \/ gs_return(t)
    \/ cil_enter(t) \/ cil_get(t) \/ cil_find(t)
    \/ inj_enter(t) \/ inj_get(t) \/ inj_add(t) \/ inj_refresh(t)
    \/ lm_enter(t) \/ lm_get(t) \/ lm_fill(t) \/ lm_wait_form(t) \/ lm_wait_marker(t)
    \/ lm_fallback(t) \/ lm_checked(t)
    \/ ss_enter(t) \/ ss_get(t) \/ ss_input(t)
    \/ sc_enter(t) \/ sc_login(t) \/ sc_checked(t) \/ sc_gui(t) \/ sc_gui_login(t)
    \/ sc_gui_logged(t) \/ sc_headless(t) \/ sc_search(t) \/ sc_searched(t)
    \/ close(t) \/ init_chrome(t) \/ init_script(t)

SpecRetry == InitRetry /\ [][NextRetry]_vars

(***************************************************************************)
(* C16: after a failed initialization of the driver the handle is null and  *)
(* nothing of the failure is kept: the next operation that needs a handle   *)
(* (check_if_logged_in, inject_cookies, login_manual, search_series,        *)
(* scrape_series, get_scraper) attempts a fresh initialization, which       *)
(* succeeds if the browser can now be started.                              *)
(***************************************************************************)
AfterFailure(t) == prev[t].call # NoCall
C16_FreshInitAfterFailure ==
  \A t \in Threads :
    /\ (self[t] # 0 /\ LastInitFailed(t)) => driver[self[t]] = None
    /\ (AfterFailure(t) /\ log[t] # <<>>) => log[t][1].cmd = "Chrome"
    /\ (AfterFailure(t) /\ pc[t] = "idle") => log[t] # <<>>
    /\ (AfterFailure(t) /\ Len(log[t]) = 2 /\ log[t][1].ok /\ log[t][2].ok) =>
         /\ log[t][2].cmd = "execute_script"
         /\ driver[self[t]] # None
         /\ driver[self[t]][1] \in live
         /\ pc[t] # "idle"

\* a search whose lazy initialization failed is followed by a search that
\* starts a browser and goes on to load the site
C16_Witness ==
  \E t \in Threads :
    /\ prev[t].call.op = "search_series" /\ call[t].op = "search_series"
    /\ Len(log[t]) = 3
    /\ log[t][1].cmd = "Chrome" /\ log[t][1].ok
    /\ log[t][2].cmd = "execute_script" /\ log[t][2].ok
    /\ log[t][3].cmd = "get" /\ log[t][3].ok
    /\ driver[self[t]] # None

(***************************************************************************)
(* A client posts session cookies, as a string or as a list, to a service   *)
(* that has no scraper yet or one whose browser is up.                      *)
(***************************************************************************)
SiteCookie(name, value) == Cookie(Some(name), Some(value), Some(DEFAULT_DOMAIN))
CookieStrings ==
  {"session_id=example123; user_token=token456", "a=b=c", " a = b ;novalue; c=d", "",
   "=v;k=", "x"}
PostedLists ==
  {<<>>, <<SessionCookie>>,
   <<SiteCookie("session_id", "example123"), SiteCookie("user_token", "token456")>>}
SessionBodies ==
  {NoBody, BadBody, OtherBody} \cup {CookieStringBody(text) : text \in CookieStrings}
    \cup {CookiesBody(cookies) : cookies \in PostedLists}

InitSession ==
  /\ \E up \in BOOLEAN :
       /\ scraper_instance = IF up THEN Some(1) ELSE None
       /\ driver = [i \in Objects |-> IF up /\ i = 1 THEN Some(1) ELSE None]
       /\ live = IF up THEN {1} ELSE {}
       /\ launched = IF up THEN 1 ELSE 0
  /\ scraper_lock = None
  /\ session_cookies = None
  /\ cookies_file = None
  /\ is_logged_in = [i \in Objects |-> FALSE]
  /\ headless = [i \in Objects |-> HEADLESS_MODE]
  /\ jar = {}
  /\ site = NoElements
  /\ page = [b \in Browsers |-> BlankPage]
  /\ InitThreads(Client, 0)
  /\ prev = <<>>
  /\ log = [t \in Client |-> <<>>]

NextSession ==
  \E t \in Client :
    \/ call_update_session_with(t, SessionBodies) \/ us_parse(t) \/ us_save(t)
    \/ us_check(t) \/ us_cil(t) \/ us_respond(t) \/ us_failed(t) \/ us_error(t)
    \/ next_request(t)
    \/ inj_enter(t) \/ inj_get(t) \/ inj_add(t) \/ inj_refresh(t)
    \/ cil_enter(t) \/ cil_get(t) \/ cil_find(t)

SpecSession == InitSession /\ [][NextSession]_vars

(***************************************************************************)
(* C21: /api/update-session stores for a flat string "n1=v1; n2=v2; ..."    *)
(* the ordered record list that the list form                               *)
(* [{name: n1, value: v1, domain: ".filman.cc"}, ...] stores: segments      *)
(* without "=" are dropped, names and values are trimmed, and a value       *)
(* keeps everything after the first "=".                                    *)
(***************************************************************************)
\* the list form of each string the client posts
ListForm(text) ==
  CASE text = "session_id=example123; user_token=token456"
         -> <<SiteCookie("session_id", "example123"), SiteCookie("user_token", "token456")>>
    [] text = "a=b=c" -> <<SiteCookie("a", "b=c")>>
    [] text = " a = b ;novalue; c=d" -> <<SiteCookie("a", "b"), SiteCookie("c", "d")>>
    [] text = "=v;k=" -> <<SiteCookie("", "v"), SiteCookie("k", "")>>
    [] OTHER -> <<>>
\* the request of t has been parsed and its cookies stored (line 181 is next)
Stored(t) == call[t].op = "update_session" /\ pc[t] = "us_save"

C21_StringAsList ==
  \A t \in Threads : (Stored(t) /\ "cookie_string" \in call[t].args.keys) =>
    session_cookies = Some(ListForm(call[t].args.cookie_string))

\* the string of the test is stored as the list of the test
C21_Witness ==
  \E t \in Threads :
    /\ Stored(t)
    /\ call[t].args = CookieStringBody("session_id=example123; user_token=token456")
    /\ session_cookies =
         Some(<<SiteCookie("session_id", "example123"), SiteCookie("user_token", "token456")>>)

(***************************************************************************)
(* The service is up with its scraper and browser; a client asks for the    *)
(* episodes of a title and for the links of episodes, with or without a     *)
(* session in the browser's profile.                                        *)
(***************************************************************************)
InitLookup ==
  /\ scraper_instance = Some(1)
  /\ scraper_lock = None
  /\ session_cookies = None
  /\ cookies_file = None
  /\ driver = [i \in Objects |-> IF i = 1 THEN Some(1) ELSE None]
  /\ is_logged_in = [i \in Objects |-> FALSE]
  /\ headless = [i \in Objects |-> HEADLESS_MODE]
  /\ live = {1}
  /\ launched = 1
  /\ jar \in SavedJars
  /\ site \in {SeriesSite, [SeriesSite EXCEPT !.posters = <<>>]}
  /\ page = [b \in Browsers |->
               IF b = 1 THEN Document(BASE_URL, NoElements, logged_in_marker(jar))
               ELSE BlankPage]
  /\ InitThreads(Client, 0)
  /\ prev = <<>>
  /\ log = [t \in Client |-> <<>>]

NextLookup ==
  \E t \in Client :
    \/ call_scrape_search(t) \/ sq_parse(t) \/ sq_search(t) \/ sq_searched(t)
    \/ sq_results(t) \/ sq_selected(t) \/ sq_respond(t) \/ sq_error(t)
    \/ call_scrape_links(t) \/ sl_parse(t) \/ sl_auth(t) \/ sl_checked(t) \/ sl_first(t)
    \/ sl_linked(t) \/ sl_error(t) \/ next_request(t)
    \/ gs_check(t) \/ gs_return(t)
    \/ cil_enter(t) \/ cil_get(t) \/ cil_find(t)
    \/ ss_enter(t) \/ ss_get(t) \/ ss_input(t)
    \/ gsr_find(t) \/ sel_click(t) \/ ee_find(t) \/ esl_get(t) \/ esl_rows(t)

SpecLookup == InitLookup /\ [][NextLookup]_vars

(***************************************************************************)
(* C22: a /api/scrape/search or /api/scrape/links request handled while     *)
(* the session is not authenticated is answered with 401 (not 404, not      *)
(* 500), and no episode or link extraction is performed for it.             *)
(***************************************************************************)
\* the request of t carries what its endpoint requires
WellFormedRequest(t) ==
  \/ call[t].op = "scrape_search" /\ "title" \in call[t].args.keys
  \/ call[t].op = "scrape_links" /\ "episodes" \in call[t].args.keys
\* the commands of extract_episodes and extract_streaming_links follow a
\* click or are the get and find_elements of a links page
Extracted(t) ==
  \E k \in DOMAIN log[t] : log[t][k].cmd = "click" \/ (call[t].op = "scrape_links" /\ k > 2)

C22_Unauthenticated401 ==
  \A t \in Threads :
    (pc[t] = "responded" /\ WellFormedRequest(t) /\ Answered(t) /\ ~logged_in_marker(jar)) =>
      /\ rv[t].value.status = 401
      /\ ~Extracted(t)

(***************************************************************************)
(* C23: search_series returns a boolean and never raises.  It returns True  *)
(* only after the query has been typed into the search input and            *)
(* submitted; when the input is not found, the navigation fails or the lazy *)
(* browser initialization fails, it returns False, and a handle that        *)
(* existed and the authenticated flag are left as they were.                *)
(***************************************************************************)
Searching(t) == call[t].op = "search_series" /\ pc[t] # "idle"
\* the call has started a browser: it found no handle
LazyInit(commands) == \E k \in DOMAIN commands : commands[k].cmd = "Chrome"

C23_SearchReturnsBoolean ==
  [][\A t \in Threads :
       Searching(t) =>
         /\ is_logged_in' = is_logged_in
         /\ (driver[self[t]] # None /\ ~LazyInit(log[t])) =>
              driver' = driver /\ ~LazyInit(log'[t])
         /\ pc'[t] = "idle" =>
              /\ rv'[t].raised = FALSE
              /\ rv'[t].value \in BOOLEAN
              /\ rv'[t].value =
                   (/\ log'[t] # <<>>
                    /\ log'[t][Len(log'[t])] = [cmd |-> "send_keys", ok |-> TRUE]
                    /\ site.search_input)
    ]_vars

\* a search has failed at the navigation with the handle it found
C23_Witness ==
  \E t \in Threads :
    /\ Finished(t, "search_series")
    /\ rv[t] = Returned(FALSE)
    /\ log[t] = <<[cmd |-> "get", ok |-> FALSE]>>
    /\ driver[self[t]] # None

(***************************************************************************)
(* A script that holds one scraper and calls two of its public methods, in  *)
(* any order, on a site with one tile, one episode and one link.            *)
(***************************************************************************)
method_call(t) ==
  \/ call_check_if_logged_in(t)
  \/ call_login_manual(t)
  \/ call_inject_cookies(t, {<<SessionCookie>>})
  \/ call_search_series(t)
  \/ call_get_search_results(t, {None})
  \/ call_select_result_by_index(t, {0}, {None})
  \/ call_extract_episodes(t)
  \/ call_extract_streaming_links(t, {EPISODE_URL})
  \/ call_close(t)

first_method(t) == call[t] = NoCall /\ method_call(t)
second_method(t) == call[t] # NoCall /\ prev[t].call = NoCall /\ method_call(t)

InitMethods ==
  /\ InitProcess
  /\ site = SeriesSite
  /\ InitThreads(Client, 1)
  /\ prev = [t \in Client |-> NoHistory]
  /\ log = [t \in Client |-> <<>>]

NextMethods ==
  \E t \in Client :
    \/ first_method(t) \/ second_method(t)
    \/ cil_enter(t) \/ cil_get(t) \/ cil_find(t)
    \/ lm_enter(t) \/ lm_get(t) \/ lm_fill(t) \/ lm_wait_form(t)
    \/ lm_wait_marker(t) \/ lm_fallback(t) \/ lm_checked(t)
    \/ inj_enter(t) \/ inj_get(t) \/ inj_add(t) \/ inj_refresh(t)
    \/ ss_enter(t) \/ ss_get(t) \/ ss_input(t)
    \/ gsr_find(t) \/ sel_click(t) \/ ee_find(t) \/ esl_get(t) \/ esl_rows(t)
    \/ close(t) \/ init_chrome(t) \/ init_script(t)

SpecMethods == InitMethods /\ [][NextMethods]_vars

(***************************************************************************)
(* C24: the authenticated flag of a scraper goes from False to True only    *)
(* inside check_if_logged_in or login_manual; inject_cookies,               *)
(* search_series, get_search_results, select_result_by_index,               *)
(* extract_episodes, extract_streaming_links and close leave it unchanged.  *)
(***************************************************************************)
CheckSteps == {"cil_enter", "cil_get", "cil_find"}
LoginSteps == {"lm_enter", "lm_get", "lm_fill", "lm_wait_form", "lm_wait_marker",
               "lm_fallback", "lm_checked"}
FlagKeepers == {"inject_cookies", "search_series", "get_search_results",
                "select_result_by_index", "extract_episodes",
                "extract_streaming_links", "close"}

C24_FlagSetOnlyByCheckOrLogin ==
  [][/\ \A i \in Objects :
          (~is_logged_in[i] /\ is_logged_in'[i]) =>
             \E t \in Threads : self[t] = i /\ pc[t] \in CheckSteps \cup LoginSteps
     /\ \A t \in Threads :
          (call[t].op \in FlagKeepers /\ pc[t] # "idle") => is_logged_in' = is_logged_in
    ]_vars

\* the flag is up and one of the other methods has run to its end on a
\* browser
C24_Witness ==
  \E t \in Threads :
    /\ Finished(t, "extract_streaming_links")
    /\ is_logged_in[self[t]]
    /\ log[t] # <<>> /\ Answered(t)

(***************************************************************************)
(* run_login.py, main, lines 25-37: the scraper as a context manager        *)
(* (__enter__ and __exit__, filman_scraper.py lines 587-591)                *)
(***************************************************************************)
\* line 27: FilmanScraper(headless=False, ...) and __enter__
call_main(t) ==
  /\ call[t] = NoCall
  /\ Begin(t, "main", NoArgs, "rl_enter", <<>>)
  /\ self' = [self EXCEPT ![t] = NewObject(t)]
  /\ headless' = [headless EXCEPT ![NewObject(t)] = FALSE]
  /\ UNCHANGED <<app_vars, driver, is_logged_in, browser_vars, site, loc>>

\* line 29
rl_enter(t) ==
  /\ pc[t] = "rl_enter"
  /\ Continue(t, Enter("cil_enter", "rl_enter", "rl_checked", stack[t]))
  /\ UNCHANGED <<app_vars, driver, is_logged_in, browser_vars, site, self, loc, headless, ghost_vars, log>>

\* lines 29-37: input() ends with Enter, or raises (end of input, interrupt)
rl_checked(t) ==
  /\ pc[t] = "rl_checked"
  /\ IF rv[t].value = TRUE
     THEN \E entered \in BOOLEAN :
            /\ Issue(t, <<[cmd |-> "input", ok |-> entered]>>)
            /\ Continue(t, Goto(IF entered THEN "rl_exit" ELSE "rl_exit_raised", stack[t]))
     ELSE /\ Continue(t, Enter("lm_enter", "rl_login", "rl_exit", stack[t]))
          /\ UNCHANGED log
  /\ UNCHANGED <<app_vars, driver, is_logged_in, browser_vars, site, self, loc, headless, ghost_vars>>

\* __exit__, lines 590-591, after a block that ended normally
rl_exit(t) ==
  /\ pc[t] = "rl_exit"
  /\ Continue(t, Enter("close", "rl_exit", "rl_done", stack[t]))
  /\ UNCHANGED <<app_vars, driver, is_logged_in, browser_vars, site, self, loc, headless, ghost_vars, log>>

\* __exit__, lines 590-591, after a block that raised
rl_exit_raised(t) ==
  /\ pc[t] = "rl_exit_raised"
  /\ Continue(t, Enter("close", "rl_exit_raised", "rl_reraise", stack[t]))
  /\ UNCHANGED <<app_vars, driver, is_logged_in, browser_vars, site, self, loc, headless, ghost_vars, log>>

\* lines 39-40
rl_done(t) ==
  /\ pc[t] = "rl_done"
  /\ Continue(t, Return(stack[t], None))
  /\ UNCHANGED <<app_vars, driver, is_logged_in, browser_vars, site, self, loc, headless, ghost_vars, log>>

\* __exit__ has returned None: the exception of the block goes on
rl_reraise(t) ==
  /\ pc[t] = "rl_reraise"
  /\ Continue(t, Throw("rl_reraise", stack[t]))
  /\ UNCHANGED <<app_vars, driver, is_logged_in, browser_vars, site, self, loc, headless, ghost_vars, log>>

(***************************************************************************)
(* shutdown_scraper, app.py lines 82-89: the hook registered with atexit    *)
(***************************************************************************)
call_shutdown_scraper(t) ==
  /\ call[t] # NoCall
  /\ Begin(t, "shutdown_scraper", NoArgs, "sd_check", <<>>)
  /\ UNCHANGED <<Unchanged_by_Begin, loc>>

\* lines 85-87
sd_check(t) ==
  /\ pc[t] = "sd_check"
  /\ IF scraper_instance = None
     THEN /\ Continue(t, Goto("sd_done", stack[t]))
          /\ UNCHANGED self
     ELSE /\ self' = [self EXCEPT ![t] = scraper_instance[1]]
          /\ Continue(t, Enter("close", "sd_check", "sd_done", stack[t]))
  /\ UNCHANGED <<app_vars, driver, is_logged_in, browser_vars, site, loc, headless, ghost_vars, log>>

\* the hook has returned and the process is gone
sd_done(t) ==
  /\ pc[t] = "sd_done"
  /\ pc' = [pc EXCEPT ![t] = "exited"]
  /\ UNCHANGED <<app_vars, driver, is_logged_in, browser_vars, site, self, loc, headless, ghost_vars, log,
                 stack, rv>>

(***************************************************************************)
(* The login script is run, then the service, which takes requests for its  *)
(* scraper until it is shut down.                                           *)
(***************************************************************************)
InitRelease ==
  /\ InitProcess
  /\ site = NoElements
  /\ InitThreads(Client, 0)
  /\ prev = <<>>
  /\ log = [t \in Client |-> <<>>]

NextRelease ==
  \E t \in Client :
    \/ call_main(t) \/ rl_enter(t) \/ rl_checked(t) \/ rl_exit(t) \/ rl_exit_raised(t)
    \/ rl_done(t) \/ rl_reraise(t)
    \/ lm_enter(t) \/ lm_get(t) \/ lm_fill(t) \/ lm_wait_form(t)
    \/ lm_wait_marker(t) \/ lm_fallback(t) \/ lm_checked(t)
    \/ call_get_scraper(t) \/ gs_check(t) \/ gs_cil(t) \/ gs_return(t)
    \/ cil_enter(t) \/ cil_get(t) \/ cil_find(t)
    \/ call_shutdown_scraper(t) \/ sd_check(t) \/ sd_done(t)
    \/ close(t) \/ init_chrome(t) \/ init_script(t)

SpecRelease == InitRelease /\ [][NextRelease]_vars

(***************************************************************************)
(* C25: when a scraper is used as a context manager its handle is null      *)
(* after the with-block has ended, whether the block finished normally or   *)
(* raised; and after the shutdown hook of the process has run, the          *)
(* process-wide scraper instance has no handle.                             *)
(***************************************************************************)
C25_Released ==
  /\ \A t \in Threads : Finished(t, "main") => driver[self[t]] = None
  /\ \A t \in Threads :
       (pc[t] = "exited" /\ scraper_instance # None) => driver[scraper_instance[1]] = None

\* the block of main raised with a browser open, and __exit__ closed it;
\* the hook closed the browser of the service
WithBlockRaised(t) ==
  /\ Finished(t, "main") /\ rv[t].raised
  /\ log[t][Len(log[t])].cmd = "quit"
HookClosed(t) ==
  /\ pc[t] = "exited" /\ scraper_instance # None
  /\ log[t] # <<>> /\ log[t][Len(log[t])].cmd = "quit"
C25_Witness == \E t \in Threads : WithBlockRaised(t)

(***************************************************************************)
(* C26: a successful /api/update-session request with a cookie list         *)
(* replaces the stored session cookies with exactly that list and reports   *)
(* success with cookies_count equal to its length; if a scraper with a live *)
(* handle exists, the cookies are injected into it and the login state is   *)
(* re-checked before the response is produced.                              *)
(***************************************************************************)
\* the request of t carried a cookie list and has been answered with success
ListAccepted(t) ==
  /\ pc[t] = "responded" /\ call[t].op = "update_session"
  /\ call[t].args.keys = {"cookies"}
  /\ rv[t].value.status = 200
\* inject_cookies has refreshed the page and check_if_logged_in has then asked
\* for the home page
InjectedThenChecked(t) ==
  \E j, k \in DOMAIN log[t] :
    j < k /\ log[t][j] = [cmd |-> "refresh", ok |-> TRUE] /\ log[t][k].cmd = "get"

C26_StoresPostedList ==
  \A t \in Threads : ListAccepted(t) =>
    /\ session_cookies = Some(call[t].args.cookies)
    /\ rv[t].value.body.success
    /\ rv[t].value.body.cookies_count = Len(call[t].args.cookies)
    /\ (scraper_instance # None /\ driver[scraper_instance[1]] # None) =>
         /\ InjectedThenChecked(t)
         /\ "logged_in" \in DOMAIN rv[t].value.body

(***************************************************************************)
(* C27: the liveness endpoints never surface a scraper failure: every       *)
(* /api/health request ends with an answer of status 'ok' and every         *)
(* /api/keep-alive request with an answer of status 'alive', whatever the   *)
(* scraper's state (no scraper, null handle, failed driver initialization,  *)
(* not logged in).                                                          *)
(***************************************************************************)
LivenessAnswer(op) == IF op = "health_check" THEN "ok" ELSE "alive"

C27_LivenessAlwaysAnswers ==
  [][\A t \in Threads :
       (/\ call[t].op \in {"health_check", "keep_alive"}
        /\ pc[t] \notin {"idle", "responded"}
        /\ pc'[t] \in {"idle", "responded"}) =>
         /\ pc'[t] = "responded"
         /\ ~rv'[t].raised
         /\ rv'[t].value.status = 200
         /\ rv'[t].value.body.status = LivenessAnswer(call[t].op)
    ]_vars

\* a health request has been answered although no browser could be started
C27_Witness ==
  \E t \in Threads :
    /\ pc[t] = "responded" /\ call[t].op = "health_check"
    /\ rv[t].value.body.status = "ok"
    /\ rv[t].value.body.logged_in = FALSE
    /\ scraper_instance # None /\ driver[scraper_instance[1]] = None

(***************************************************************************)
(* A script calls scrape_series on a headless scraper that is not logged    *)
(* in, and calls it again when the verification after the relogin failed.   *)
(***************************************************************************)
\* the call of t has ended at line 539: the check in the reopened headless
\* browser returned False
VerificationFailed(t) ==
  /\ call[t].op = "scrape_series" /\ log[t] # <<>>
  /\ Last(t) = [cmd |-> "final_checked", ok |-> TRUE, value |-> FALSE]

first_scrape_series(t) ==
  /\ call[t] = NoCall
  /\ call_scrape_series(t, {"serial"}, {0})

scrape_series_again(t) ==
  /\ prev[t].call = NoCall
  /\ VerificationFailed(t)
  /\ call_scrape_series(t, {"serial"}, {0})

InitRelogin ==
  /\ scraper_instance = None
  /\ scraper_lock = None
  /\ session_cookies = None
  /\ cookies_file = None
  /\ \E handle \in {None, Some(0)} :
       /\ driver = [i \in Objects |-> IF i = 1 THEN handle ELSE None]
       /\ live = {handle[k] : k \in DOMAIN handle}
  /\ headless = [i \in Objects |-> i = 1]
  /\ is_logged_in = [i \in Objects |-> FALSE]
  /\ launched = 0
  /\ jar \in SavedJars
  /\ site = SeriesSite
  /\ page = [b \in {0} \cup Browsers |-> BlankPage]
  /\ InitThreads(Client, 1)
  /\ prev = [t \in Client |-> NoHistory]
  /\ log = [t \in Client |-> <<>>]

NextRelogin ==
  \E t \in Client :
    \/ first_scrape_series(t) \/ scrape_series_again(t)
    \/ sc_enter(t) \/ sc_login(t) \/ sc_checked(t) \/ sc_gui(t)
    \/ sc_gui_login(t) \/ sc_gui_logged(t) \/ sc_headless(t) \/ sc_final(t)
    \/ sc_final_checked(t) \/ sc_search(t) \/ sc_searched(t) \/ sc_select(t)
    \/ sc_selected(t) \/ sc_episodes(t) \/ sc_linked(t)
    \/ lm_enter(t) \/ lm_get(t) \/ lm_fill(t) \/ lm_wait_form(t) \/ lm_wait_marker(t)
    \/ lm_fallback(t) \/ lm_checked(t)
    \/ cil_enter(t) \/ cil_get(t) \/ cil_find(t)
    \/ ss_enter(t) \/ ss_get(t) \/ ss_input(t) \/ gsr_find(t) \/ sel_click(t) \/ ee_find(t)
    \/ esl_get(t) \/ esl_rows(t)
    \/ close(t) \/ init_chrome(t) \/ init_script(t)

SpecRelogin == InitRelogin /\ [][NextRelogin]_vars

(***************************************************************************)
(* C28: scrape_series submits a search only if the most recent              *)
(* authentication outcome on the live handle (login check or manual login)  *)
(* was positive; in particular, after a call whose verification in the      *)
(* reopened headless browser returned False, a following scrape_series call *)
(* does not search without a new check or login.                            *)
(***************************************************************************)
\* the commands by which check_if_logged_in and login_manual look at the
\* session: the lookup of the logout marker and the two waits
LooksAtSession(entry) == entry.cmd \in {"find_elements", "wait_form", "wait_marker"}

C28_SearchOnlyWhenAuthenticated ==
  \A t \in Threads : call[t].op = "scrape_series" =>
    \A k \in DOMAIN log[t] :
      log[t][k] = [cmd |-> "send_keys", ok |-> TRUE] =>
        \E j \in 1..(k - 1) : LooksAtSession(log[t][j]) /\ log[t][j].ok

(***************************************************************************)
(* C29: extract_streaming_links yields at most one StreamLink per table     *)
(* row, in row order; a row with fewer than 3 cells or without a link in    *)
(* the provider column yields none; for every row that yields one, the      *)
(* link's version is the (trimmed) text of the 2nd cell, its quality the    *)
(* (trimmed) text of the 3rd cell and its url the src field of the decoded  *)
(* payload.                                                                 *)
(***************************************************************************)
\* the src field of the JSON object a payload decodes to
SrcOf(s) == dict_get(json_loads(utf8_decode(b64decode(s).bytes).text).v, Ords("src"))

\* link is what the claim allows a row to yield
YieldedBy(link, row) ==
  /\ Len(row.cells) >= 3
  /\ PayloadOf(row) # None
  /\ link.version = strip(row.cells[2])
  /\ link.quality = strip(row.cells[3])
  /\ DecodesToJSON(PayloadOf(row)[1])
  /\ json_loads(utf8_decode(b64decode(PayloadOf(row)[1]).bytes).text).v.t = "object"
  /\ Some(link.url) = SrcOf(PayloadOf(row)[1])

C29_OneLinkPerRowInOrder ==
  \A t \in Threads : LinksRead(t) =>
    LET links == rv[t].value
    IN  \E f \in [DOMAIN links -> DOMAIN Table(t)] :
          /\ \A i, j \in DOMAIN links : i < j => f[i] < f[j]
          /\ \A i \in DOMAIN links : YieldedBy(links[i], Table(t)[f[i]])

\* a table with a row of two cells and a complete row was read, and the one
\* link of the complete row came out
C29_Witness ==
  \E t \in Threads :
    /\ LinksRead(t)
    /\ Len(Table(t)) = 2
    /\ Len(Table(t)[1].cells) = 2
    /\ Len(rv[t].value) = 1
    /\ rv[t].value[1].version = "Lektor"
    /\ rv[t].value[1].quality = "720p"
    /\ rv[t].value[1].url = [t |-> "string", s |-> Ords("u")]

(***************************************************************************)
(* C30: on a series page extract_episodes returns, in DOM order, exactly    *)
(* one episode for each list item that has no nested span and has an        *)
(* anchor; items with a nested span and items without an anchor give no     *)
(* episode and do not stop the processing of the items after them.          *)
(***************************************************************************)
\* the list items of the page the finished call of t read
ListItems(t) == page[driver[self[t]][1]].items
OnSeriesPage(t) == ~is_movie_url(page[driver[self[t]][1]].current_url)

C30_OneEpisodePerPlainItem ==
  \A t \in Threads : (EpisodesRead(t) /\ OnSeriesPage(t)) =>
    LET taken == SelectSeq(ListItems(t), IsEpisodeItem)
    IN  /\ Len(rv[t].value) = Len(taken)
        /\ \A i \in DOMAIN taken : rv[t].value[i] = episode_of(taken[i].anchor[1])

\* a season header followed by an episode was read: the episode came out
C30_Witness ==
  \E t \in Threads :
    /\ EpisodesRead(t) /\ OnSeriesPage(t)
    /\ Len(ListItems(t)) = 2
    /\ ListItems(t)[1].has_span
    /\ Len(rv[t].value) = 1
    /\ rv[t].value[1].episode = "S01E01"

(***************************************************************************)
(* C31: select_result_by_index returns False and clicks nothing whenever    *)
(* the index does not denote a tile of the filtered list, that is whenever  *)
(* the index is negative or not below the number of tiles matching the      *)
(* filter; and it never raises.                                             *)
(***************************************************************************)
Selected(t) == Finished(t, "select_result_by_index")
\* the number of tiles of the page the call of t found that match its filter
Matching(t) == Len(filtered_posters(call[t].page.posters, call[t].args.content_type).kept)

C31_OutOfRangeSelectsNothing ==
  \A t \in Threads : Selected(t) =>
    /\ ~rv[t].raised
    /\ (call[t].args.index < 0 \/ call[t].args.index >= Matching(t)) =>
         rv[t].value = FALSE /\ Clicked(t) = {}

(***************************************************************************)
(* scrape_series with a scheduler that lets the calling thread go on: every *)
(* command given to the browser comes back, with a result or an exception   *)
(* (the waits of login_manual have timeouts).                               *)
(***************************************************************************)
SpecSeriesFair == InitSeries /\ [][NextSeries]_vars /\ WF_vars(NextSeries)

(***************************************************************************)
(* C32: scrape_series always terminates and never raises: every call        *)
(* returns a list, empty when the login, the search, the selection or the   *)
(* start of the driver failed; it calls login_manual at most once and       *)
(* contains no retry loop.                                                  *)
(***************************************************************************)
Scraped(t) == Finished(t, "scrape_series")
ManualLogins(t) == {k \in DOMAIN log[t] : log[t][k].cmd = "manual_login"}
Failed(entry) ==
  \/ entry.cmd \in {"Chrome", "execute_script"} /\ ~entry.ok
  \/ entry.cmd \in {"manual_logged", "final_checked"} /\ entry.value = FALSE
  \/ entry.cmd = "wait_for_element"
\* the search was submitted and a tile was clicked
SearchedAndSelected(t) ==
  \E j, k \in DOMAIN log[t] :
    j < k /\ log[t][j] = [cmd |-> "send_keys", ok |-> TRUE] /\ log[t][k].cmd = "click"

ScrapeReturnsList ==
  \A t \in Threads : call[t].op = "scrape_series" =>
    /\ Cardinality(ManualLogins(t)) <= 1
    /\ Scraped(t) =>
         /\ ~rv[t].raised
         /\ DOMAIN rv[t].value = 1..Len(rv[t].value)
         /\ rv[t].value # <<>> =>
              /\ SearchedAndSelected(t)
              /\ \A k \in DOMAIN log[t] : ~Failed(log[t][k])

C32_ScrapeTerminates ==
  /\ []ScrapeReturnsList
  /\ \A t \in Client : (call[t].op = "scrape_series") ~> Scraped(t)

\* a call in which the manual login failed has returned the empty list
C32_Witness ==
  \E t \in Threads :
    /\ Scraped(t)
    /\ Cardinality(ManualLogins(t)) = 1
    /\ \E k \in DOMAIN log[t] : log[t][k] = [cmd |-> "manual_logged", ok |-> TRUE, value |-> FALSE]
    /\ rv[t] = Returned(<<>>)

(***************************************************************************)
(* C33: a /api/update-session request whose body is empty or has neither    *)
(* 'cookies' nor 'cookie_string' is answered with 400 and changes nothing:  *)
(* the stored session cookies, the cookie file and the browser's cookies    *)
(* stay as they were.                                                       *)
(***************************************************************************)
\* the body of the request of t was parsed and names no cookies
NamesNoCookies(t) ==
  /\ call[t].op = "update_session"
  /\ "rejected" \notin DOMAIN call[t].args
  /\ call[t].args.keys \cap {"cookies", "cookie_string"} = {}

ForeignCookie == Cookie(Some("tracker"), Some("1"), Some("ads.example.com"))
StoredLists == PostedLists \cup {<<ForeignCookie, SessionCookie>>}

InitStored ==
  /\ InitProcess
  /\ site = NoElements
  /\ InitThreads(Client, 0)
  /\ prev = <<>>
  /\ log = [t \in Client |-> <<>>]

NextStored ==
  \E t \in Client :
    \/ call_update_session_with(t, {CookiesBody(cookies) : cookies \in StoredLists})
    \/ us_parse(t) \/ us_save(t) \/ us_check(t) \/ us_cil(t) \/ us_respond(t)
    \/ us_failed(t) \/ next_request(t)
    \/ call_get_scraper(t) \/ gs_check(t) \/ gs_cil(t) \/ gs_return(t)
    \/ inj_enter(t) \/ inj_get(t) \/ inj_add(t) \/ inj_refresh(t)
    \/ cil_enter(t) \/ cil_get(t) \/ cil_find(t)
    \/ init_chrome(t) \/ init_script(t)

SpecStored == InitStored /\ [][NextStored]_vars

\* get_scraper has made a new scraper, holds stored cookies and is about to
\* call check_if_logged_in (line 77)
BeforeLoginCheck(t) ==
  /\ call[t].op = "get_scraper"
  /\ pc[t] = "gs_cil"
  /\ session_cookies # None
  /\ session_cookies[1] # <<>>

\* every stored cookie was handed to the browser, in the order of the list
EachOffered(t) ==
  /\ Len(Applied(t)) = Len(session_cookies[1])
  /\ \A k \in DOMAIN Applied(t) : Applied(t)[k].cookie = session_cookies[1][k]

GetScraperCall == [op |-> "get_scraper", args |-> NoArgs, page |-> BlankPage]

InitSingleton ==
  /\ InitProcess
  /\ site = NoElements
  /\ pc = [t \in Requests |-> "gs_check"]
  /\ stack = [t \in Requests |-> <<>>]
  /\ self = [t \in Requests |-> 0]
  /\ loc = [t \in Requests |-> NoLocals]
  /\ rv = [t \in Requests |-> Returned(None)]
  /\ call = [t \in Requests |-> GetScraperCall]
  /\ prev = [t \in Requests |-> NoHistory]
  /\ log = [t \in Requests |-> <<>>]

NextSingleton ==
  \E t \in Requests :
    \/ call_get_scraper(t) \/ gs_check(t) \/ gs_cil(t) \/ gs_return(t)
    \/ cil_enter(t) \/ cil_get(t) \/ cil_find(t)
    \/ init_chrome(t) \/ init_script(t)

SpecSingleton == InitSingleton /\ [][NextSingleton]_vars

\* the call of t is one of the calls that arrived together
Together(t) == call[t].op = "get_scraper" /\ prev[t].call = NoCall
\* t has the instance its get_scraper call took or made
Has(t) == self[t] # 0
LiveInstance == scraper_instance # None /\ driver[scraper_instance[1]] # None

\* line 57: thread t looks at the instance
Looks(t) == pc[t] = "gs_check" /\ pc'[t] # "gs_check"
\* line 80
Returns(t) == pc[t] = "gs_return" /\ pc'[t] # "gs_return"

Reuses(t) ==
  /\ scraper_instance' = scraper_instance
  /\ self'[t] = scraper_instance[1]
  /\ pc'[t] = "gs_return"
  /\ launched' = launched /\ live' = live /\ driver' = driver

SingletonStep ==
  /\ \A t \in Threads : (Looks(t) /\ LiveInstance) => Reuses(t)
  /\ \A t \in Threads : Returns(t) =>
       /\ rv'[t].value = scraper_instance
       /\ scraper_instance = Some(self[t])
       /\ scraper_instance' = scraper_instance
  /\ scraper_instance' # scraper_instance =>
       /\ ~LiveInstance
       /\ \E t \in Threads : Looks(t)

\* calls that arrived together have different instances only when one of
\* the instances has no browser
OneInstanceUnlessStartFailed ==
  \A t, u \in Threads :
    (Together(t) /\ Together(u) /\ Has(t) /\ Has(u) /\ self[t] # self[u])
      => (driver[self[t]] = None \/ driver[self[u]] = None)

FirstScrape(t) == Finished(t, "scrape_series") /\ prev[t].call = NoCall

C36_HeadlessPreserved ==
  \A t \in Threads : FirstScrape(t) => headless[self[t]] = TRUE


(***************************************************************************)
(* A search that lists one title, asked for as a series, as a film or as    *)
(* a title of unknown kind; the title's URL is drawn from TypedUrls.        *)
(***************************************************************************)
TypedUrls ==
  {"https://filman.cc/s/a", "https://filman.cc/serial/a", "https://filman.cc/m/b",
   "https://filman.cc/film/b", "https://filman.cc/x/e", "https://filman.cc/s/m/c",
   "https://filman.cc/film/s/d"}
TypedBodies ==
  {BadBody} \cup {SearchBody({"title", "type"}, type, None) : type \in {"serial", "film", "unknown"}}

\* the service is up with its scraper and browser, on the home page of one
\* of the given sites
InitSearchOn(sites) ==
  /\ site \in sites
  /\ page = [b \in Browsers |->
               IF b = 1 THEN Document(BASE_URL, NoElements, FALSE) ELSE BlankPage]
  /\ scraper_instance = Some(1)
  /\ scraper_lock = None
  /\ session_cookies = None
  /\ cookies_file = None
  /\ driver = [i \in Objects |-> IF i = 1 THEN Some(1) ELSE None]
  /\ is_logged_in = [i \in Objects |-> FALSE]
  /\ headless = [i \in Objects |-> HEADLESS_MODE]
  /\ live = {1}
  /\ launched = 1
  /\ jar = {}
  /\ InitThreads(Client, 0)
  /\ prev = <<>>
  /\ log = [t \in Client |-> <<>>]

TitleSite(posters, heading) ==
  [NoElements EXCEPT !.posters = posters, !.heading = heading,
                     !.items = <<Item(FALSE, Anchor("[S01E01] Pilot"))>>,
                     !.search_input = TRUE]

InitTypes ==
  InitSearchOn({TitleSite(<<Tile(Link(url), <<"A">>, <<"2020">>)>>, heading) :
                  url \in TypedUrls, heading \in Headings})

call_scrape_search_with(t, bodies) ==
  /\ \E data \in bodies :
       /\ Begin(t, "scrape_search", data, "sq_parse", <<>>)
       /\ loc' = [loc EXCEPT ![t].data = data]
  /\ UNCHANGED Unchanged_by_Begin

NextTypes ==
  \E t \in Client :
    \/ call_scrape_search_with(t, TypedBodies) \/ sq_parse(t) \/ sq_search(t)
    \/ sq_searched(t) \/ sq_results(t) \/ sq_selected(t) \/ sq_respond(t) \/ sq_error(t)
    \/ next_request(t)
    \/ gs_check(t) \/ gs_return(t)
    \/ ss_enter(t) \/ ss_get(t) \/ ss_input(t)
    \/ gsr_find(t) \/ sel_click(t) \/ ee_find(t)

SpecTypes == InitTypes /\ [][NextTypes]_vars

\* the request of t was answered with a title and its episodes, and the
\* browser carried out every command: the page read is the listed title's
SearchAnswered(t) ==
  /\ pc[t] = "responded"
  /\ call[t].op = "scrape_search"
  /\ rv[t].value.status = 200
  /\ Answered(t)
  /\ page[1].current_url = rv[t].value.body.url

\* extract_episodes took the branch of lines 409-417
MovieBranch(episodes) == Len(episodes) = 1 /\ episodes[1].episode = "FILM"

(***************************************************************************)
(* C37: listing and extraction agree on the content type: get_search_results*)
(* gives a URL the type 'film' exactly when extract_episodes on the page of  *)
(* that URL takes the movie branch (one synthetic 'FILM' episode), and the   *)
(* type 'serial' or 'unknown' exactly when it reads the episode list.        *)
(***************************************************************************)
C37_TypeAgreesWithBranch ==
  \A t \in Threads :
    SearchAnswered(t) =>
      LET body == rv[t].value.body
      IN  /\ body.type = "film" <=> MovieBranch(body.episodes)
          /\ body.type \in {"serial", "unknown"} <=> ~MovieBranch(body.episodes)


(***************************************************************************)
(* C38: a failed driver initialization leaves no browser running: whenever  *)
(* _init_driver raises, whether the browser did not start or a step after   *)
(* a successful start failed, no browser started by that call is alive.     *)
(***************************************************************************)
\* _init_driver of thread t has just raised at line 122 or at line 125
InitRaised(t) ==
  /\ log[t] # <<>>
  /\ Last(t).cmd \in {"Chrome", "execute_script"}
  /\ ~Last(t).ok
\* the browsers line 122 started in the call of t
StartedBy(t) ==
  LET starts == {k \in DOMAIN log[t] : log[t][k].cmd = "Chrome" /\ log[t][k].ok}
  IN  {b \in Browsers : launched - Cardinality(starts) < b /\ b <= launched}

C38_FailedInitLeavesNoBrowser ==
  \A t \in Threads : InitRaised(t) => (driver[self[t]] = None /\ StartedBy(t) \cap live = {})


(***************************************************************************)
(* A search whose result page has up to two tiles, one of them possibly     *)
(* without a title.                                                         *)
(***************************************************************************)
ListedTiles ==
  {Tile(Link("https://filman.cc/s/a"), <<"A">>, <<"2020">>),
   Tile(Link("https://filman.cc/s/b"), <<"B">>, <<"2008">>),
   Tile(Link("https://filman.cc/m/d"), <<"D">>, <<"2008">>),
   Tile(Link("https://filman.cc/s/c"), NoElem, <<"2008">>)}
ListedBodies ==
  {BadBody, SearchBody({"title"}, "serial", None),
   SearchBody({"title", "year"}, "serial", IntYear(2008)),
   SearchBody({"title", "type", "year"}, "film", IntYear(2008))}

InitListed ==
  InitSearchOn({TitleSite(posters, NoElem) : posters \in SeqsUpTo(ListedTiles, MaxItems)})

NextListed ==
  \E t \in Client :
    \/ call_scrape_search_with(t, ListedBodies) \/ sq_parse(t) \/ sq_search(t)
    \/ sq_searched(t) \/ sq_results(t) \/ sq_selected(t) \/ sq_respond(t) \/ sq_error(t)
    \/ next_request(t)
    \/ gs_check(t) \/ gs_return(t)
    \/ ss_enter(t) \/ ss_get(t) \/ ss_input(t)
    \/ gsr_find(t) \/ sel_click(t) \/ ee_find(t)

SpecListed == InitListed /\ [][NextListed]_vars

\* the request of t was answered with a title and its episodes, and the
\* browser carried out every command
TitleReported(t) ==
  /\ pc[t] = "responded"
  /\ call[t].op = "scrape_search"
  /\ rv[t].value.status = 200
  /\ Answered(t)

(***************************************************************************)
(* C39: in every successful /api/scrape/search response the reported        *)
(* title, type, year and url describe the search result whose page was      *)
(* opened and from which the returned episodes were extracted.              *)
(***************************************************************************)
C39_ReportsTheOpenedResult ==
  \A t \in Threads :
    TitleReported(t) =>
      LET body == rv[t].value.body
      IN  /\ Clicked(t) = {Some(body.url)}
          /\ page[1].current_url = body.url
          /\ body.episodes = extract_episodes(page[1])
          /\ \E k \in DOMAIN site.posters :
               /\ site.posters[k].link = Link(body.url)
               /\ site.posters[k].title = <<body.title>>
               /\ body.type = item_type_of(body.url)
               /\ body.year = IF site.posters[k].year = NoElem THEN ""
                              ELSE site.posters[k].year[1]


(***************************************************************************)
(* Two clients post session cookies at the same time to a service whose     *)
(* scraper has its browser up.                                              *)
(***************************************************************************)
InitPosting ==
  /\ scraper_instance = Some(1)
  /\ driver = [i \in Objects |-> IF i = 1 THEN Some(1) ELSE None]
  /\ live = {1}
  /\ launched = 1
  /\ scraper_lock = None
  /\ session_cookies = None
  /\ cookies_file = None
  /\ is_logged_in = [i \in Objects |-> FALSE]
  /\ headless = [i \in Objects |-> HEADLESS_MODE]
  /\ jar = {}
  /\ site = NoElements
  /\ page = [b \in Browsers |-> BlankPage]
  /\ InitThreads(Requests, 0)
  /\ prev = <<>>
  /\ log = <<>>

NextPosting ==
  \E t \in Requests :
    \/ call_update_session_with(t, {CookiesBody(cookies) : cookies \in ClientCookieLists})
    \/ us_parse(t) \/ us_save(t) \/ us_check(t) \/ us_cil(t) \/ us_respond(t)
    \/ us_failed(t) \/ next_request(t)
    \/ inj_enter(t) \/ inj_get(t) \/ inj_add(t) \/ inj_refresh(t)
    \/ cil_enter(t) \/ cil_get(t) \/ cil_find(t)

SpecPosting == InitPosting /\ [][NextPosting]_vars

\* every request has been answered
AllCompleted == \A t \in Threads : pc[t] = "responded" /\ call[t].op = "update_session"
\* the browser holds every stored cookie, with the stored value
StoredIsInBrowser ==
  \A k \in DOMAIN session_cookies[1] :
    LET cookie == session_cookies[1][k]
    IN  [name |-> cookie.name[1], value |-> cookie.value[1],
         domain |-> IF cookie.domain = None THEN DEFAULT_DOMAIN ELSE dotted(cookie.domain[1])]
          \in jar

====
